---- MODULE Spec2Model ----
(***************************************************************************)
(* Model of the Graph class of Scripts/Structure.js (the caller-chosen     *)
(* index version, lines 265-606): the vertex objects with their ordered    *)
(* neighbor sets, the index <-> vertex maps, the four mutating operations, *)
(* induced-subgraph extraction, the two depth-first walks, and the         *)
(* notation import/export.                                                 *)
(*                                                                         *)
(* Numbers.  A JavaScript number is modelled in halves: the TLA+ integer n *)
(* stands for the number n/2.  So 0, 2, 4, ... are the integers 0, 1, 2,   *)
(* ..., and an odd value is a non-integer (1 is 0.5).  Number.isInteger    *)
(* is IsInteger below, and the comparator (a, b) => a - b orders halves    *)
(* as it orders the numbers they stand for.                                *)
(*                                                                         *)
(* Objects.  A Graph.Vertex object is a reference drawn from Heap.  A      *)
(* graph value carries the neighbor sets of the vertex objects it created  *)
(* (neighbors), its Map index -> vertex in insertion order (vertices) and  *)
(* its Map vertex -> index (indices).  A JavaScript Set or Map iterates in *)
(* insertion order, so both are sequences without repetition.              *)
(***************************************************************************)
EXTENDS Integers, Sequences, FiniteSets, TLC

VARIABLES graph, call, components, input, notation, twin, walker, board, derived,
          pressed, pointer, casts

vars == <<graph, call, components, input, notation, twin, walker, board, derived,
          pressed, pointer, casts>>

\* What the callers of the Graph class, the walk taken in steps and the
\* board page all leave as it is: the graph a caller keeps of those a query
\* returned, what is pressed on the mouse and the screen, the pointer flags
\* of the progenitor, the gestures of the entities.
apart == <<derived, pressed, pointer, casts>>

\* What a caller of the Graph class alone leaves as it is: the second
\* instance, the walk taken in steps, the board page.
aside == <<twin, walker, board, apart>>

\* Largest integer index the callers of the mutation interface use.
MaxIndex == 2

\* Most edges (self-loops included) the callers of the mutation interface
\* ever put into the graph.
MaxEdges == 2

\* Largest integer index the caller of the decomposition uses.
MaxWalkIndex == 3

\* Most edges (self-loops included) a graph handed to the decomposition has.
MaxWalkEdges == 3

\* Most vertices, and most connections, a notation handed to Graph.import
\* lists.
MaxListed == 2

MaxConnections == 2

\* Largest number, in halves, the caller that passes any number uses, and
\* most edges it puts into the graph.
MaxArgument == 4

MaxArgumentEdges == 2

\* Largest integer index, and most edges, of a graph a subgraph is taken of.
MaxSubgraphIndex == 2

MaxSubgraphEdges == 3

\* Largest number, in halves, a source handed to Graph.import names, the
\* most vertices and the most connections it lists.
MaxSourceNumber == 2

MaxSourceListed == 2

MaxSourceConnections == 2

\* Largest integer index, and most edges, the driver of two instances uses.
MaxTwinIndex == 1

MaxTwinEdges == 2

\* Largest integer index, and most edges, of a graph walked in steps.
MaxStepIndex == 2

MaxStepEdges == 3

\* The most vertices the user of the board ever places, and the most edge
\* members on the board at a time.
MaxPlaced == 2

MaxDrawn == 2

\* The caller of the queries keeps a returned graph: vertices 0..MaxQueryIndex
\* and at most MaxQueryEdges edges in the source graph.
MaxQueryIndex == 1

MaxQueryEdges == 1

Integer(i) == 2 * i

Indices == { Integer(i) : i \in 0..MaxIndex }

WalkIndices == { Integer(i) : i \in 0..MaxWalkIndex }

SubgraphIndices == { Integer(i) : i \in 0..MaxSubgraphIndex }

TwinIndices == { Integer(i) : i \in 0..MaxTwinIndex }

StepIndices == { Integer(i) : i \in 0..MaxStepIndex }

QueryIndices == { Integer(i) : i \in 0..MaxQueryIndex }

\* The integers a notation names: one more than it can list as vertices.
NotationIndices == { Integer(i) : i \in 0..MaxListed }

\* The numbers a caller passes that does not keep to integers: 0, 0.5, 1, ...
ArgumentNumbers == 0 .. MaxArgument

\* The arguments the callers of the mutation interface pass.
Numbers == Indices

IsInteger(x) == x % 2 = 0

\* References of vertex objects: more than the live vertices ever need, so
\* that a reference that is still held somewhere is never handed out again.
Heap == 1 .. ((IF MaxIndex > MaxWalkIndex THEN MaxIndex ELSE MaxWalkIndex) + MaxListed + 3)

Range(s) == { s[k] : k \in 1..Len(s) }

\* Set.prototype.add, Set.prototype.delete on an insertion-ordered set.
SetAdd(s, x) == IF x \in Range(s) THEN s ELSE Append(s, x)

SetDelete(s, x) == SelectSeq(s, LAMBDA y : y # x)

EmptyGraph ==
  [vertices |-> << >>, indices |-> [v \in {} |-> 0], neighbors |-> [v \in Heap |-> << >>]]

(***************************************************************************)
(* Graph.Vertex                                                            *)
(***************************************************************************)

\* The references in use: bound in a map, holding or held in a neighbor set.
Referenced(g) ==
  { g.vertices[k].vertex : k \in 1..Len(g.vertices) }
    \cup DOMAIN g.indices
    \cup { v \in Heap : g.neighbors[v] # << >> }
    \cup UNION { Range(g.neighbors[v]) : v \in Heap }

\* new Graph.Vertex(): a reference not in use.  Which one is immaterial to
\* the program; the model takes the one numbered after the index when it is
\* free, and the least free one otherwise.
NewVertex(g, index) ==
  LET free == Heap \ Referenced(g)
      named == (index \div 2) + 1
  IN IF named \in free THEN named ELSE CHOOSE v \in free : \A u \in free : v <= u

isNeighbor(g, vertex1, vertex2) == vertex2 \in Range(g.neighbors[vertex1])

\* connect with only the first of the two add calls.
connectOneWay(g, vertex1, vertex2) ==
  IF isNeighbor(g, vertex1, vertex2) \/ isNeighbor(g, vertex2, vertex1)
  THEN [graph |-> g, error |-> "ConnectionExists"]
  ELSE [graph |-> [g EXCEPT !.neighbors[vertex1] = SetAdd(@, vertex2)], error |-> "none"]

\* connect without the check that throws.
connectUnchecked(g, vertex1, vertex2) ==
  LET n1 == [g.neighbors EXCEPT ![vertex1] = SetAdd(@, vertex2)]
      n2 == [n1 EXCEPT ![vertex2] = SetAdd(@, vertex1)]
  IN [graph |-> [g EXCEPT !.neighbors = n2], error |-> "none"]

\* Graph.Vertex.connect: [graph, error].
connect(g, vertex1, vertex2) ==
  IF isNeighbor(g, vertex1, vertex2) \/ isNeighbor(g, vertex2, vertex1)
  THEN [graph |-> g, error |-> "ConnectionExists"]
  ELSE LET n1 == [g.neighbors EXCEPT ![vertex1] = SetAdd(@, vertex2)]
           n2 == [n1 EXCEPT ![vertex2] = SetAdd(@, vertex1)]
       IN [graph |-> [g EXCEPT !.neighbors = n2], error |-> "none"]

\* disconnect with only the first of the two delete calls.
disconnectOneWay(g, vertex1, vertex2) ==
  IF ~isNeighbor(g, vertex1, vertex2) \/ ~isNeighbor(g, vertex2, vertex1)
  THEN [graph |-> g, error |-> "ConnectionMissing"]
  ELSE [graph |-> [g EXCEPT !.neighbors[vertex1] = SetDelete(@, vertex2)], error |-> "none"]

\* disconnect with the neighbor set of the second vertex cleared, not
\* only rid of the first vertex.
disconnectClearing(g, vertex1, vertex2) ==
  IF ~isNeighbor(g, vertex1, vertex2) \/ ~isNeighbor(g, vertex2, vertex1)
  THEN [graph |-> g, error |-> "ConnectionMissing"]
  ELSE LET n1 == [g.neighbors EXCEPT ![vertex1] = SetDelete(@, vertex2)]
           n2 == [n1 EXCEPT ![vertex2] = << >>]
       IN [graph |-> [g EXCEPT !.neighbors = n2], error |-> "none"]

\* Graph.Vertex.disconnect: [graph, error].
disconnect(g, vertex1, vertex2) ==
  IF ~isNeighbor(g, vertex1, vertex2) \/ ~isNeighbor(g, vertex2, vertex1)
  THEN [graph |-> g, error |-> "ConnectionMissing"]
  ELSE LET n1 == [g.neighbors EXCEPT ![vertex1] = SetDelete(@, vertex2)]
           n2 == [n1 EXCEPT ![vertex2] = SetDelete(@, vertex1)]
       IN [graph |-> [g EXCEPT !.neighbors = n2], error |-> "none"]

(***************************************************************************)
(* Graph: the maps                                                         *)
(***************************************************************************)

hasVertex(g, index) == \E k \in 1..Len(g.vertices) : g.vertices[k].index = index

\* this.#vertices.get(index), for a bound index.
vertexOf(g, index) ==
  g.vertices[CHOOSE k \in 1..Len(g.vertices) : g.vertices[k].index = index].vertex

\* get vertices(): the keys of the forward map.
verticesOf(g) == { g.vertices[k].index : k \in 1..Len(g.vertices) }

\* #getIndex, for a vertex the reverse map holds.
getIndex(g, vertex) == g.indices[vertex]

\* addVertex returning normally, nothing done, for an index already bound.
addVertexSilent(g, index) ==
  IF ~IsInteger(index) THEN [graph |-> g, error |-> "NotInteger"]
  ELSE IF hasVertex(g, index) THEN [graph |-> g, error |-> "none"]
  ELSE LET vertex == NewVertex(g, index)
       IN [graph |-> [g EXCEPT
                        !.vertices = Append(@, [index |-> index, vertex |-> vertex]),
                        !.indices = [v \in DOMAIN @ \cup {vertex} |->
                                       IF v = vertex THEN index ELSE @[v]]],
           error |-> "none"]

\* addVertex without the test of #setVertex: Map.set on a bound index puts the
\* new vertex in the place of the old one.
addVertexRebinding(g, index) ==
  IF ~IsInteger(index) THEN [graph |-> g, error |-> "NotInteger"]
  ELSE LET vertex == NewVertex(g, index)
       IN [graph |-> [g EXCEPT
                        !.vertices = IF hasVertex(g, index)
                                     THEN [k \in 1..Len(@) |->
                                             IF @[k].index = index
                                             THEN [index |-> index, vertex |-> vertex]
                                             ELSE @[k]]
                                     ELSE Append(@, [index |-> index, vertex |-> vertex]),
                        !.indices = [v \in DOMAIN @ \cup {vertex} |->
                                       IF v = vertex THEN index ELSE @[v]]],
           error |-> "none"]

\* #setVertex after the integer check of addVertex: [graph, error].
addVertex(g, index) ==
  IF ~IsInteger(index) THEN [graph |-> g, error |-> "NotInteger"]
  ELSE IF hasVertex(g, index) THEN [graph |-> g, error |-> "VertexExists"]
  ELSE LET vertex == NewVertex(g, index)
       IN [graph |-> [g EXCEPT
                        !.vertices = Append(@, [index |-> index, vertex |-> vertex]),
                        !.indices = [v \in DOMAIN @ \cup {vertex} |->
                                       IF v = vertex THEN index ELSE @[v]]],
           error |-> "none"]

\* addVertex in a run of the program where new Graph.Vertex() returns the
\* reference vertex.
addVertexAs(g, index, vertex) ==
  IF ~IsInteger(index) THEN [graph |-> g, error |-> "NotInteger"]
  ELSE IF hasVertex(g, index) THEN [graph |-> g, error |-> "VertexExists"]
  ELSE [graph |-> [g EXCEPT
                     !.vertices = Append(@, [index |-> index, vertex |-> vertex]),
                     !.indices = [v \in DOMAIN @ \cup {vertex} |->
                                    IF v = vertex THEN index ELSE @[v]]],
        error |-> "none"]

\* The loop of removeVertex over the live neighbor set: each pass takes the
\* first entry of the set not yet visited, as the Set iterator does while
\* entries are deleted under it; a throw of disconnect ends the call there.
RECURSIVE removeLoop(_, _, _)
removeLoop(g, vertex, visited) ==
  LET rest == SelectSeq(g.neighbors[vertex], LAMBDA n : n \notin visited)
  IN IF rest = << >> THEN [graph |-> g, error |-> "none"]
     ELSE LET r == disconnect(g, vertex, Head(rest))
          IN IF r.error # "none" THEN r
             ELSE removeLoop(r.graph, vertex, visited \cup {Head(rest)})

\* removeVertex without the delete on the reverse map.
removeVertexKeepingReverse(g, index) ==
  IF ~IsInteger(index) THEN [graph |-> g, error |-> "NotInteger"]
  ELSE IF ~hasVertex(g, index) THEN [graph |-> g, error |-> "VertexMissing"]
  ELSE LET vertex == vertexOf(g, index)
           r == removeLoop(g, vertex, {})
       IN IF r.error # "none" THEN r
          ELSE [graph |-> [r.graph EXCEPT
                             !.vertices = SelectSeq(@, LAMBDA e : e.index # index)],
                error |-> "none"]

\* removeVertex without the loop that disconnects the neighbors.
removeVertexKeepingEdges(g, index) ==
  IF ~IsInteger(index) THEN [graph |-> g, error |-> "NotInteger"]
  ELSE IF ~hasVertex(g, index) THEN [graph |-> g, error |-> "VertexMissing"]
  ELSE LET vertex == vertexOf(g, index)
       IN [graph |-> [g EXCEPT
                        !.vertices = SelectSeq(@, LAMBDA e : e.index # index),
                        !.indices = [v \in DOMAIN @ \ {vertex} |-> @[v]]],
           error |-> "none"]

removeVertex(g, index) ==
  IF ~IsInteger(index) THEN [graph |-> g, error |-> "NotInteger"]
  ELSE IF ~hasVertex(g, index) THEN [graph |-> g, error |-> "VertexMissing"]
  ELSE LET vertex == vertexOf(g, index)
           r == removeLoop(g, vertex, {})
       IN IF r.error # "none" THEN r
          ELSE [graph |-> [r.graph EXCEPT
                             !.vertices = SelectSeq(@, LAMBDA e : e.index # index),
                             !.indices = [v \in DOMAIN @ \ {vertex} |-> @[v]]],
                error |-> "none"]

\* [from, to].sort((a, b) => a - b)
sortPair(from, to) == IF to < from THEN <<to, from>> ELSE <<from, to>>

\* addEdge without the sort, the connection entered in the neighbor set of
\* from only.
addEdgeFromSideOnly(g, from, to) ==
  IF ~IsInteger(from) \/ ~IsInteger(to) THEN [graph |-> g, error |-> "NotInteger"]
  ELSE IF ~hasVertex(g, from) \/ ~hasVertex(g, to)
  THEN [graph |-> g, error |-> "VertexMissing"]
  ELSE connectOneWay(g, vertexOf(g, from), vertexOf(g, to))

addEdge(g, from, to) ==
  IF ~IsInteger(from) \/ ~IsInteger(to) THEN [graph |-> g, error |-> "NotInteger"]
  ELSE LET p == sortPair(from, to)
       IN IF ~hasVertex(g, p[1]) \/ ~hasVertex(g, p[2])
          THEN [graph |-> g, error |-> "VertexMissing"]
          ELSE connect(g, vertexOf(g, p[1]), vertexOf(g, p[2]))

\* removeEdge with the vertices looked up before the integer tests.
removeEdgeLookupFirst(g, from, to) ==
  LET p == sortPair(from, to)
  IN IF ~hasVertex(g, p[1]) \/ ~hasVertex(g, p[2])
     THEN [graph |-> g, error |-> "VertexMissing"]
     ELSE IF ~IsInteger(from) \/ ~IsInteger(to) THEN [graph |-> g, error |-> "NotInteger"]
     ELSE disconnect(g, vertexOf(g, p[1]), vertexOf(g, p[2]))

removeEdge(g, from, to) ==
  IF ~IsInteger(from) \/ ~IsInteger(to) THEN [graph |-> g, error |-> "NotInteger"]
  ELSE LET p == sortPair(from, to)
       IN IF ~hasVertex(g, p[1]) \/ ~hasVertex(g, p[2])
          THEN [graph |-> g, error |-> "VertexMissing"]
          ELSE disconnect(g, vertexOf(g, p[1]), vertexOf(g, p[2]))

\* getNeighborsOf: [neighbors, error]; #getVertex throws for an index that is
\* not bound, #getIndex for a neighbor the reverse map does not hold.
getNeighborsOf(g, index) ==
  IF ~IsInteger(index) THEN [neighbors |-> {}, error |-> "NotInteger"]
  ELSE IF ~hasVertex(g, index) THEN [neighbors |-> {}, error |-> "VertexMissing"]
  ELSE LET setNeighbors == Range(g.neighbors[vertexOf(g, index)])
       IN IF \E n \in setNeighbors : n \notin DOMAIN g.indices
          THEN [neighbors |-> {}, error |-> "VertexMissing"]
          ELSE [neighbors |-> { getIndex(g, n) : n \in setNeighbors }, error |-> "none"]

\* getSubgraphWith(vertices), the set given as the array Array.from makes of
\* it: [graph, error].  subgraphOuter is the loop over index, subgraphInner
\* the loop over index2; positions count from 1.
RECURSIVE subgraphOuter(_, _, _, _), subgraphInner(_, _, _, _, _)
subgraphOuter(g, subgraph, arrayVertices, index) ==
  IF index > Len(arrayVertices) THEN [graph |-> subgraph, error |-> "none"]
  ELSE LET indexFrom == arrayVertices[index]
       IN IF ~hasVertex(g, indexFrom) THEN [graph |-> subgraph, error |-> "VertexMissing"]
          ELSE LET r == IF index = 1 THEN addVertex(subgraph, indexFrom)
                        ELSE [graph |-> subgraph, error |-> "none"]
               IN IF r.error # "none" THEN r
                  ELSE subgraphInner(g, r.graph, arrayVertices, index, index + 1)

subgraphInner(g, subgraph, arrayVertices, index, index2) ==
  IF index2 > Len(arrayVertices) THEN subgraphOuter(g, subgraph, arrayVertices, index + 1)
  ELSE LET indexFrom == arrayVertices[index]
           indexTo == arrayVertices[index2]
       IN IF ~hasVertex(g, indexTo) THEN [graph |-> subgraph, error |-> "VertexMissing"]
          ELSE LET r1 == IF index = 1 THEN addVertex(subgraph, indexTo)
                         ELSE [graph |-> subgraph, error |-> "none"]
                   r2 == IF r1.error = "none"
                            /\ isNeighbor(g, vertexOf(g, indexFrom), vertexOf(g, indexTo))
                         THEN addEdge(r1.graph, indexFrom, indexTo)
                         ELSE r1
               IN IF r2.error # "none" THEN r2
                  ELSE subgraphInner(g, r2.graph, arrayVertices, index, index2 + 1)

getSubgraphWith(g, arrayVertices) == subgraphOuter(g, EmptyGraph, arrayVertices, 1)

(***************************************************************************)
(* Graph.DFS                                                               *)
(***************************************************************************)

\* A StrictMap is a function on the keys set so far; ask(key) === null is
\* ~has(map, key).
EmptyMap == [v \in {} |-> 0]

has(map, key) == key \in DOMAIN map

mapSet(map, key, value) ==
  [k \in DOMAIN map \cup {key} |-> IF k = key THEN value ELSE map[k]]

\* new GraphDFS(): the fields of lines 391-401; failed records a throw.
NewDFS ==
  [paths |-> << >>, stack |-> << >>, time |-> 0, lowlinks |-> EmptyMap,
   visits |-> EmptyMap, parent |-> EmptyMap, failed |-> FALSE]

\* The pop loop leaving the edge [vertex, neighbor] it stops at out of the
\* path.
RECURSIVE popPathWithoutLast(_, _, _, _)
popPathWithoutLast(stack, vertex, neighbor, path) ==
  IF stack = << >> THEN [stack |-> stack, path |-> path, failed |-> TRUE]
  ELSE LET edge == stack[Len(stack)]
           rest == SubSeq(stack, 1, Len(stack) - 1)
       IN IF edge = <<vertex, neighbor>>
          THEN [stack |-> rest, path |-> path, failed |-> FALSE]
          ELSE popPathWithoutLast(rest, vertex, neighbor, Append(path, edge))

\* The pop loop stopping at the edge [neighbor, vertex], the tree edge
\* turned around.
RECURSIVE popPathTurned(_, _, _, _)
popPathTurned(stack, vertex, neighbor, path) ==
  IF stack = << >> THEN [stack |-> stack, path |-> path, failed |-> TRUE]
  ELSE LET edge == stack[Len(stack)]
           rest == SubSeq(stack, 1, Len(stack) - 1)
       IN IF edge = <<neighbor, vertex>>
          THEN [stack |-> rest, path |-> Append(path, edge), failed |-> FALSE]
          ELSE popPathTurned(rest, vertex, neighbor, Append(path, edge))

\* The pop loop of lines 426-430: pops into path down to and including the
\* edge [vertex, neighbor]; peeking the empty stack fails.
RECURSIVE popPath(_, _, _, _)
popPath(stack, vertex, neighbor, path) ==
  IF stack = << >> THEN [stack |-> stack, path |-> path, failed |-> TRUE]
  ELSE LET edge == stack[Len(stack)]
           rest == SubSeq(stack, 1, Len(stack) - 1)
       IN IF edge = <<vertex, neighbor>>
          THEN [stack |-> rest, path |-> Append(path, edge), failed |-> FALSE]
          ELSE popPath(rest, vertex, neighbor, Append(path, edge))

\* The closing condition with a vertex taken for a non-root when it has a
\* parent, not when its discovery time is above 1.
closesComponentByParent(dfs, vertex, neighbor, children) ==
  \/ dfs.visits[vertex] = 1 /\ children > 1
  \/ has(dfs.parent, vertex) /\ dfs.lowlinks[neighbor] >= dfs.visits[vertex]

\* The closing condition of line 423, on return from the child neighbor.
closesComponent(dfs, vertex, neighbor, children) ==
  \/ dfs.visits[vertex] = 1 /\ children > 1
  \/ dfs.visits[vertex] > 1 /\ dfs.lowlinks[neighbor] >= dfs.visits[vertex]

\* The back-edge condition of lines 433 and 456.
isBackEdge(dfs, vertex, neighbor) ==
  /\ ~(has(dfs.parent, vertex) /\ dfs.parent[vertex] = neighbor)
  /\ dfs.visits[neighbor] < dfs.visits[vertex]

\* #walkDepthFirstExtended(vertex) and its loop over vertex.neighbors, at
\* position k with the children counted so far.
RECURSIVE walkDepthFirstExtended(_, _, _), walkExtendedLoop(_, _, _, _, _)
walkDepthFirstExtended(g, dfs, vertex) ==
  LET time == dfs.time + 1
  IN walkExtendedLoop(g,
       [dfs EXCEPT !.time = time,
                   !.lowlinks = mapSet(@, vertex, time),
                   !.visits = mapSet(@, vertex, time)],
       vertex, 1, 0)

walkExtendedLoop(g, dfs, vertex, k, children) ==
  IF dfs.failed \/ k > Len(g.neighbors[vertex]) THEN dfs
  ELSE LET neighbor == g.neighbors[vertex][k]
       IN IF ~has(dfs.visits, neighbor)
          THEN LET d1 == walkDepthFirstExtended(g,
                           [dfs EXCEPT !.parent = mapSet(@, neighbor, vertex),
                                       !.stack = Append(@, <<vertex, neighbor>>)],
                           neighbor)
                   d2 == IF d1.lowlinks[vertex] > d1.lowlinks[neighbor]
                         THEN [d1 EXCEPT !.lowlinks = mapSet(@, vertex, d1.lowlinks[neighbor])]
                         ELSE d1
                   p == popPath(d2.stack, vertex, neighbor, << >>)
                   d3 == IF d1.failed THEN d1
                         ELSE IF closesComponent(d2, vertex, neighbor, children + 1)
                         THEN [d2 EXCEPT !.stack = p.stack,
                                         !.paths = Append(@, p.path),
                                         !.failed = p.failed]
                         ELSE d2
               IN walkExtendedLoop(g, d3, vertex, k + 1, children + 1)
          ELSE IF isBackEdge(dfs, vertex, neighbor)
          THEN LET d1 == IF dfs.lowlinks[vertex] > dfs.visits[neighbor]
                         THEN [dfs EXCEPT !.lowlinks = mapSet(@, vertex, dfs.visits[neighbor])]
                         ELSE dfs
               IN walkExtendedLoop(g, [d1 EXCEPT !.stack = Append(@, <<vertex, neighbor>>)],
                                   vertex, k + 1, children)
          ELSE walkExtendedLoop(g, dfs, vertex, k + 1, children)

\* The loop over graph.#vertices without the flush of the stack.
RECURSIVE rootsExtendedUnflushed(_, _, _)
rootsExtendedUnflushed(g, dfs, k) ==
  IF dfs.failed \/ k > Len(g.vertices) THEN dfs
  ELSE LET vertex == g.vertices[k].vertex
       IN rootsExtendedUnflushed(g,
            IF ~has(dfs.visits, vertex) THEN walkDepthFirstExtended(g, dfs, vertex) ELSE dfs,
            k + 1)

\* The loop of getBiconnectedComponents over graph.#vertices, at position k:
\* a walk from each vertex not visited yet, and the flush of the stack into
\* #paths after every vertex.
RECURSIVE rootsExtended(_, _, _)
rootsExtended(g, dfs, k) ==
  IF dfs.failed \/ k > Len(g.vertices) THEN dfs
  ELSE LET vertex == g.vertices[k].vertex
           d1 == IF ~has(dfs.visits, vertex) THEN walkDepthFirstExtended(g, dfs, vertex)
                 ELSE dfs
       IN rootsExtended(g, [d1 EXCEPT !.paths = Append(@, d1.stack), !.stack = << >>], k + 1)

\* path.flat(): the vertices of the edges of a path, in order.
RECURSIVE flat(_)
flat(path) ==
  IF path = << >> THEN << >> ELSE <<path[1][1], path[1][2]>> \o flat(Tail(path))

\* Array.from(new Set(array)): the first occurrences, in order.
RECURSIVE distinct(_)
distinct(array) ==
  IF array = << >> THEN << >>
  ELSE SetAdd(distinct(SubSeq(array, 1, Len(array) - 1)), array[Len(array)])

\* The vertex indices of a path taken from the first vertex of every edge
\* only.
pathSources(g, path) ==
  distinct([k \in 1..Len(path) |-> getIndex(g, path[k][1])])

\* The vertex indices of a path, as the set line 367 builds.
pathIndices(g, path) ==
  LET vs == flat(path) IN distinct([k \in 1..Len(vs) |-> getIndex(g, vs[k])])

\* The map of line 367 over the paths kept by the filter: [graphs, error].
RECURSIVE pathsToGraphs(_, _)
pathsToGraphs(g, paths) ==
  IF paths = << >> THEN [graphs |-> << >>, error |-> "none"]
  ELSE IF \E v \in Range(flat(Head(paths))) : ~has(g.indices, v)
  THEN [graphs |-> << >>, error |-> "VertexMissing"]
  ELSE LET r == getSubgraphWith(g, pathIndices(g, Head(paths)))
           rs == pathsToGraphs(g, Tail(paths))
       IN IF r.error # "none" THEN [graphs |-> << >>, error |-> r.error]
          ELSE IF rs.error # "none" THEN rs
          ELSE [graphs |-> <<r.graph>> \o rs.graphs, error |-> "none"]

\* The recorded edge lists of a decomposition run: dfs.#paths after the loop.
extendedWalk(g) == rootsExtended(g, NewDFS, 1)

\* getBiconnectedComponents without the filter of the empty paths.
getBiconnectedComponentsUnfiltered(g) ==
  LET dfs == extendedWalk(g)
  IN IF dfs.failed THEN [graphs |-> << >>, error |-> "StackEmpty"]
     ELSE pathsToGraphs(g, dfs.paths)

\* Graph.DFS.getBiconnectedComponents: [graphs, error].
getBiconnectedComponents(g) ==
  LET dfs == extendedWalk(g)
  IN IF dfs.failed THEN [graphs |-> << >>, error |-> "StackEmpty"]
     ELSE pathsToGraphs(g, SelectSeq(dfs.paths, LAMBDA path : Len(path) > 0))

\* #walkDepthFirst(vertex) and its loop over vertex.neighbors, at position k.
RECURSIVE walkDepthFirstFrom(_, _, _), walkLoop(_, _, _, _)
walkDepthFirstFrom(g, dfs, vertex) ==
  LET time == dfs.time + 1
  IN walkLoop(g, [dfs EXCEPT !.time = time, !.visits = mapSet(@, vertex, time)], vertex, 1)

\* The loop of #walkDepthFirst without the branch that pushes a back edge.
RECURSIVE walkLoopTreeEdgesOnly(_, _, _, _)
walkLoopTreeEdgesOnly(g, dfs, vertex, k) ==
  IF k > Len(g.neighbors[vertex]) THEN dfs
  ELSE LET neighbor == g.neighbors[vertex][k]
       IN IF ~has(dfs.visits, neighbor)
          THEN walkLoopTreeEdgesOnly(g,
                 walkDepthFirstFrom(g,
                   [dfs EXCEPT !.parent = mapSet(@, neighbor, vertex),
                               !.stack = Append(@, <<vertex, neighbor>>)],
                   neighbor),
                 vertex, k + 1)
          ELSE walkLoopTreeEdgesOnly(g, dfs, vertex, k + 1)

walkLoop(g, dfs, vertex, k) ==
  IF k > Len(g.neighbors[vertex]) THEN dfs
  ELSE LET neighbor == g.neighbors[vertex][k]
       IN IF ~has(dfs.visits, neighbor)
          THEN walkLoop(g,
                 walkDepthFirstFrom(g,
                   [dfs EXCEPT !.parent = mapSet(@, neighbor, vertex),
                               !.stack = Append(@, <<vertex, neighbor>>)],
                   neighbor),
                 vertex, k + 1)
          ELSE IF isBackEdge(dfs, vertex, neighbor)
          THEN walkLoop(g, [dfs EXCEPT !.stack = Append(@, <<vertex, neighbor>>)], vertex, k + 1)
          ELSE walkLoop(g, dfs, vertex, k + 1)

\* The loop of walkDepthFirst taking the roots in the order of the addresses
\* of the vertex objects, not in the order of insertion.
RECURSIVE rootsPlainByAddress(_, _, _)
rootsPlainByAddress(g, dfs, k) ==
  IF k > Len(g.vertices) THEN dfs
  ELSE LET live == { g.vertices[j].vertex : j \in 1..Len(g.vertices) }
           vertex == CHOOSE v \in live : Cardinality({ u \in live : u < v }) = k - 1
       IN rootsPlainByAddress(g,
            IF ~has(dfs.visits, vertex) THEN walkDepthFirstFrom(g, dfs, vertex) ELSE dfs,
            k + 1)

\* The loop of walkDepthFirst over graph.#vertices, at position k.
RECURSIVE rootsPlain(_, _, _)
rootsPlain(g, dfs, k) ==
  IF k > Len(g.vertices) THEN dfs
  ELSE LET vertex == g.vertices[k].vertex
       IN rootsPlain(g,
            IF ~has(dfs.visits, vertex) THEN walkDepthFirstFrom(g, dfs, vertex) ELSE dfs,
            k + 1)

\* Stack.clear(): empties the stack and returns what it held, oldest first.
stackClear(stack) == [k \in 1..Len(stack) |-> stack[k]]

\* Graph.DFS.walkDepthFirst: the pushed edges as pairs of indices.
walkDepthFirst(g) ==
  LET edges == stackClear(rootsPlain(g, NewDFS, 1).stack)
  IN [k \in 1..Len(edges) |-> <<getIndex(g, edges[k][1]), getIndex(g, edges[k][2])>>]

(***************************************************************************)
(* Notation                                                                *)
(***************************************************************************)

\* export(): the live indices in map order, the walk's edges as connections.
export(g) ==
  LET walk == walkDepthFirst(g)
  IN [vertices |-> [k \in 1..Len(g.vertices) |-> g.vertices[k].index],
      connections |-> [k \in 1..Len(walk) |-> [from |-> walk[k][1], to |-> walk[k][2]]]]

\* Array.import and Number.import return the property when it is an array,
\* a number, and throw otherwise; a property that is not of its type is
\* modelled as a property the object lacks.
isArray(shell, property) == property \in DOMAIN shell

isNumber(item, property) == property \in DOMAIN item

\* The two loops of Graph.import; the first throw ends the import.
RECURSIVE importVertices(_, _), importEdges(_, _)
importVertices(g, vertexIndices) ==
  IF vertexIndices = << >> THEN [graph |-> g, error |-> "none"]
  ELSE LET r == addVertex(g, Head(vertexIndices))
       IN IF r.error # "none" THEN r ELSE importVertices(r.graph, Tail(vertexIndices))

\* The loop over the connections with a failed addEdge passed over.
RECURSIVE importEdgesPassingOver(_, _)
importEdgesPassingOver(g, edges) ==
  IF edges = << >> THEN [graph |-> g, error |-> "none"]
  ELSE IF ~isNumber(Head(edges), "from") \/ ~isNumber(Head(edges), "to")
  THEN [graph |-> g, error |-> "NotNumber"]
  ELSE importEdgesPassingOver(addEdge(g, Head(edges).from, Head(edges).to).graph, Tail(edges))

importEdges(g, edges) ==
  IF edges = << >> THEN [graph |-> g, error |-> "none"]
  ELSE IF ~isNumber(Head(edges), "from") \/ ~isNumber(Head(edges), "to")
  THEN [graph |-> g, error |-> "NotNumber"]
  ELSE LET r == addEdge(g, Head(edges).from, Head(edges).to)
       IN IF r.error # "none" THEN r ELSE importEdges(r.graph, Tail(edges))

\* Graph.import(source), for a source that is an object: [graph, error,
\* cause]; any throw is wrapped in the outer TypeError, the original as its
\* cause.
import(source) ==
  LET r1 == IF isArray(source, "vertices") THEN importVertices(EmptyGraph, source.vertices)
            ELSE [graph |-> EmptyGraph, error |-> "NotArray"]
      r2 == IF r1.error # "none" THEN r1
            ELSE IF isArray(source, "connections") THEN importEdges(r1.graph, source.connections)
            ELSE [graph |-> r1.graph, error |-> "NotArray"]
  IN IF r2.error = "none" THEN [graph |-> r2.graph, error |-> "none", cause |-> "none"]
     ELSE [graph |-> EmptyGraph, error |-> "UnableToImport", cause |-> r2.error]

(***************************************************************************)
(* The caller of the mutation interface                                    *)
(***************************************************************************)

NoCall == [op |-> "new", from |-> 0, to |-> 0, error |-> "none"]

NoNotation == [vertices |-> << >>, connections |-> << >>]

\* No walk under way.  A walk is a GraphDFS object and the activations of
\* its recursive method.  mode: "extended" for the walk of
\* getBiconnectedComponents, "plain" for that of walkDepthFirst.  dfs: the
\* fields of the object.  root: the position of the loop over
\* graph.#vertices.  frames: the activations, outermost first, each with its
\* vertex, the position k of its loop over vertex.neighbors and its children
\* counter.  entered: the vertices the method was entered with, in order.
\* pushed: the edges handed to stack.push, in order.
NoWalk ==
  [phase |-> "none", mode |-> "none", dfs |-> NewDFS, root |-> 1, frames |-> << >>,
   entered |-> << >>, pushed |-> << >>]

\* No pointer gesture under way on the board.
NoGesture == [kind |-> "none", vertex |-> 0, edge |-> 0]

\* The board page not loaded.  execute: inputExecuteProgram.checked.  tool:
\* which of inputVertexTool and inputEdgeTool is checked.  counter:
\* VertexMember.#counter.  vertices: the VertexMember objects among
\* progenitor.children, each with its object identity id, its #index and
\* its #connections.  members:
\* VertexMember.#members.  edges: the EdgeMember objects among
\* progenitor.children, each with its identity and the contents of its two
\* sockets, 0 for null.  gesture: the drag under way.  given: every index
\* an attach listener has assigned, in order.
NoBoard ==
  [phase |-> "none", execute |-> FALSE, tool |-> "vertex", counter |-> 0,
   vertices |-> << >>, members |-> << >>, edges |-> << >>, gesture |-> NoGesture,
   given |-> << >>]

\* The initial #pointPointerPosition, Point2D.repeat(NaN): on no entity.
NaN == -1

\* The flags of the Progenitor constructor before any event, the pointer
\* position, and the pointerdown and pointerup events dispatched so far.
NoPointer ==
  [isPointerDown |-> FALSE, wasPointerDown |-> FALSE, isPointerUp |-> FALSE,
   isPointerMove |-> FALSE, pointPointerPosition |-> NaN, dispatched |-> << >>]

\* Nothing pressed, no pointer event yet, no gesture.
Untouched == pressed = {} /\ pointer = NoPointer /\ casts = << >>

\* No second instance, no walk in steps, no board page, no graph kept of
\* those a query returned, the pointer untouched.
Idle ==
  /\ twin = EmptyGraph /\ walker = NoWalk /\ board = NoBoard /\ derived = EmptyGraph
  /\ Untouched

\* graph: the Graph in the caller's hand.  call: the last call made, its
\* arguments and how it ended.  components: what getBiconnectedComponents
\* returned when it was the last call.  input: the notation the caller
\* hands to Graph.import.  notation: what export() returned.
Init ==
  /\ graph = EmptyGraph
  /\ call = NoCall
  /\ components = << >>
  /\ input = NoNotation
  /\ notation = NoNotation
  /\ Idle

AddVertex(index) ==
  LET r == addVertex(graph, index)
  IN /\ graph' = r.graph
     /\ call' = [op |-> "addVertex", from |-> index, to |-> index, error |-> r.error]
     /\ components' = << >>
     /\ UNCHANGED <<input, notation, aside>>

RemoveVertex(index) ==
  LET r == removeVertex(graph, index)
  IN /\ graph' = r.graph
     /\ call' = [op |-> "removeVertex", from |-> index, to |-> index, error |-> r.error]
     /\ components' = << >>
     /\ UNCHANGED <<input, notation, aside>>

AddEdge(from, to) ==
  LET r == addEdge(graph, from, to)
  IN /\ graph' = r.graph
     /\ call' = [op |-> "addEdge", from |-> from, to |-> to, error |-> r.error]
     /\ components' = << >>
     /\ UNCHANGED <<input, notation, aside>>

RemoveEdge(from, to) ==
  LET r == removeEdge(graph, from, to)
  IN /\ graph' = r.graph
     /\ call' = [op |-> "removeEdge", from |-> from, to |-> to, error |-> r.error]
     /\ components' = << >>
     /\ UNCHANGED <<input, notation, aside>>

GetNeighborsOf(index) ==
  LET r == getNeighborsOf(graph, index)
  IN /\ call' = [op |-> "getNeighborsOf", from |-> index, to |-> index, error |-> r.error]
     /\ components' = << >>
     /\ UNCHANGED <<graph, input, notation, aside>>

\* getSubgraphWith(new Set(arrayVertices)): the graph returned is kept as the
\* one entry of components, the argument in the field vertices of call.
GetSubgraphWith(arrayVertices) ==
  LET r == getSubgraphWith(graph, arrayVertices)
  IN /\ components' = IF r.error = "none" THEN <<r.graph>> ELSE << >>
     /\ call' = [op |-> "getSubgraphWith", from |-> 0, to |-> 0, error |-> r.error,
                 vertices |-> arrayVertices]
     /\ UNCHANGED <<graph, input, notation, aside>>

GetBiconnectedComponents ==
  LET r == getBiconnectedComponents(graph)
  IN /\ components' = r.graphs
     /\ call' = [op |-> "getBiconnectedComponents", from |-> 0, to |-> 0, error |-> r.error]
     /\ UNCHANGED <<graph, input, notation, aside>>

\* graph = Graph.import(source): on a throw the caller keeps the graph it had.
Import ==
  LET r == import(input)
  IN /\ graph' = IF r.error = "none" THEN r.graph ELSE graph
     /\ call' = [op |-> "import", from |-> 0, to |-> 0, error |-> r.error]
     /\ components' = << >>
     /\ UNCHANGED <<input, notation, aside>>

Export ==
  /\ notation' = export(graph)
  /\ call' = [op |-> "export", from |-> 0, to |-> 0, error |-> "none"]
  /\ components' = << >>
  /\ UNCHANGED <<graph, input, aside>>

\* The number of edges of a graph, a self-loop counted once.
edgeCount(g) ==
  LET live == { g.vertices[k].vertex : k \in 1..Len(g.vertices) }
  IN Cardinality({ e \in live \X live : e[1] <= e[2] /\ isNeighbor(g, e[1], e[2]) })

(***************************************************************************)
(* The caller of the mutation interface: any call with integers of         *)
(* 0..MaxIndex, failing calls included, as long as the graph keeps to      *)
(* MaxEdges edges.                                                         *)
(***************************************************************************)

Next ==
  \/ \E index \in Numbers : AddVertex(index)
  \/ \E index \in Numbers : RemoveVertex(index)
  \/ \E from \in Numbers, to \in Numbers :
       AddEdge(from, to) /\ edgeCount(graph') <= MaxEdges
  \/ \E from \in Numbers, to \in Numbers : RemoveEdge(from, to)

Spec == Init /\ [][Next]_vars

(***************************************************************************)
(* The caller of the decomposition.  Like the board, it numbers the        *)
(* vertices in the order it adds them, over the integers 0..MaxWalkIndex;  *)
(* it makes the calls that succeed and decomposes the graph it has built.  *)
(***************************************************************************)

Succeeds == call'.error = "none"

NextWalk ==
  \/ \E index \in WalkIndices :
       /\ \A live \in verticesOf(graph) : live < index
       /\ AddVertex(index) /\ Succeeds
  \/ \E index \in WalkIndices : RemoveVertex(index) /\ Succeeds
  \/ \E from \in WalkIndices, to \in WalkIndices :
       AddEdge(from, to) /\ Succeeds /\ edgeCount(graph') <= MaxWalkEdges
  \/ \E from \in WalkIndices, to \in WalkIndices : RemoveEdge(from, to) /\ Succeeds
  \/ GetBiconnectedComponents

SpecWalk == Init /\ [][NextWalk]_vars

(***************************************************************************)
(* The caller of the notation interface, as the textbox page: it imports   *)
(* a source and exports the graph it got.                                  *)
(***************************************************************************)

SeqsUpTo(S, n) == UNION { [1..m -> S] : m \in 0..n }

Notations ==
  [vertices : SeqsUpTo(NotationIndices, MaxListed),
   connections : SeqsUpTo([from : NotationIndices, to : NotationIndices], MaxConnections)]

InitNotation ==
  /\ graph = EmptyGraph
  /\ call = NoCall
  /\ components = << >>
  /\ input \in Notations
  /\ notation = NoNotation
  /\ Idle

NextNotation ==
  \/ call.op = "new" /\ Import
  \/ call.op = "import" /\ Export

SpecNotation == InitNotation /\ [][NextNotation]_vars

(***************************************************************************)
(* The caller that passes any number: integers and non-integers, bound or  *)
(* not, to the four mutations and to getNeighborsOf.                       *)
(***************************************************************************)

NextArguments ==
  \/ \E index \in ArgumentNumbers : AddVertex(index)
  \/ \E index \in ArgumentNumbers : RemoveVertex(index)
  \/ \E from \in ArgumentNumbers, to \in ArgumentNumbers :
       AddEdge(from, to) /\ edgeCount(graph') <= MaxArgumentEdges
  \/ \E from \in ArgumentNumbers, to \in ArgumentNumbers : RemoveEdge(from, to)
  \/ \E index \in ArgumentNumbers : GetNeighborsOf(index)

SpecArguments == Init /\ [][NextArguments]_vars

(***************************************************************************)
(* The caller of Graph.import with any object: fields that are there or    *)
(* not, numbers that are integers or not, vertices and connections that    *)
(* repeat or not.                                                          *)
(***************************************************************************)

SourceNumbers == 0 .. MaxSourceNumber

\* The items of a connections array: with both numbers, or lacking one.
SourceItems ==
  [from : SourceNumbers, to : SourceNumbers]
    \cup [from : SourceNumbers] \cup [to : SourceNumbers]

Sources ==
  LET lists == SeqsUpTo(SourceNumbers, MaxSourceListed)
      items == SeqsUpTo(SourceItems, MaxSourceConnections)
  IN [vertices : lists, connections : items]
       \cup [vertices : lists] \cup [connections : items]

InitImport ==
  /\ graph = EmptyGraph
  /\ call = NoCall
  /\ components = << >>
  /\ input \in Sources
  /\ notation = NoNotation
  /\ Idle

NextImport == call.op = "new" /\ Import

SpecImport == InitImport /\ [][NextImport]_vars

(***************************************************************************)
(* The caller of getSubgraphWith: it builds a graph over the integers      *)
(* 0..MaxSubgraphIndex with the calls that succeed and asks for the        *)
(* subgraph with a set of these integers, live or not, in any order of     *)
(* insertion into the set.                                                 *)
(***************************************************************************)

\* The arrays Array.from makes of the sets over S: no entry twice.
ArraysOver(S) ==
  { a \in SeqsUpTo(S, Cardinality(S)) : \A j, k \in 1..Len(a) : j # k => a[j] # a[k] }

NextSubgraph ==
  \/ \E index \in SubgraphIndices : AddVertex(index) /\ Succeeds
  \/ \E index \in SubgraphIndices : RemoveVertex(index) /\ Succeeds
  \/ \E from \in SubgraphIndices, to \in SubgraphIndices :
       AddEdge(from, to) /\ Succeeds /\ edgeCount(graph') <= MaxSubgraphEdges
  \/ \E from \in SubgraphIndices, to \in SubgraphIndices : RemoveEdge(from, to) /\ Succeeds
  \/ \E arrayVertices \in ArraysOver(SubgraphIndices) : GetSubgraphWith(arrayVertices)

SpecSubgraph == Init /\ [][NextSubgraph]_vars

(***************************************************************************)
(* The caller of export: it builds a graph as the caller of the            *)
(* decomposition does, exports it and makes no call after that.            *)
(***************************************************************************)

Exported == call.op = "export"

NextExport ==
  \/ \E index \in WalkIndices :
       /\ ~Exported
       /\ \A live \in verticesOf(graph) : live < index
       /\ AddVertex(index) /\ Succeeds
  \/ \E index \in WalkIndices : ~Exported /\ RemoveVertex(index) /\ Succeeds
  \/ \E from \in WalkIndices, to \in WalkIndices :
       ~Exported /\ AddEdge(from, to) /\ Succeeds /\ edgeCount(graph') <= MaxWalkEdges
  \/ \E from \in WalkIndices, to \in WalkIndices :
       ~Exported /\ RemoveEdge(from, to) /\ Succeeds
  \/ ~Exported /\ Export

SpecExport == Init /\ [][NextExport]_vars

(***************************************************************************)
(* The driver of two instances: it makes every call of the mutation        *)
(* interface on graph and on twin, with integers of 0..MaxTwinIndex.  The  *)
(* two instances live in runs of the program that place the vertex objects *)
(* differently: the reference a new vertex of twin gets is the least or    *)
(* the greatest one free.                                                  *)
(***************************************************************************)

Allocations(g) ==
  LET free == Heap \ Referenced(g)
  IN { v \in free : (\A u \in free : v <= u) \/ (\A u \in free : v >= u) }

BothAddVertex(index) ==
  \E vertex \in Allocations(twin) :
    LET r == addVertex(graph, index)
    IN /\ graph' = r.graph
       /\ twin' = addVertexAs(twin, index, vertex).graph
       /\ call' = [op |-> "addVertex", from |-> index, to |-> index, error |-> r.error]
       /\ components' = << >>
       /\ UNCHANGED <<input, notation, walker, board, apart>>

BothRemoveVertex(index) ==
  LET r == removeVertex(graph, index)
  IN /\ graph' = r.graph
     /\ twin' = removeVertex(twin, index).graph
     /\ call' = [op |-> "removeVertex", from |-> index, to |-> index, error |-> r.error]
     /\ components' = << >>
     /\ UNCHANGED <<input, notation, walker, board, apart>>

BothAddEdge(from, to) ==
  LET r == addEdge(graph, from, to)
  IN /\ graph' = r.graph
     /\ twin' = addEdge(twin, from, to).graph
     /\ call' = [op |-> "addEdge", from |-> from, to |-> to, error |-> r.error]
     /\ components' = << >>
     /\ UNCHANGED <<input, notation, walker, board, apart>>

BothRemoveEdge(from, to) ==
  LET r == removeEdge(graph, from, to)
  IN /\ graph' = r.graph
     /\ twin' = removeEdge(twin, from, to).graph
     /\ call' = [op |-> "removeEdge", from |-> from, to |-> to, error |-> r.error]
     /\ components' = << >>
     /\ UNCHANGED <<input, notation, walker, board, apart>>

NextTwin ==
  \/ \E index \in TwinIndices : BothAddVertex(index) /\ Succeeds
  \/ \E index \in TwinIndices : BothRemoveVertex(index) /\ Succeeds
  \/ \E from \in TwinIndices, to \in TwinIndices :
       BothAddEdge(from, to) /\ Succeeds /\ edgeCount(graph') <= MaxTwinEdges
  \/ \E from \in TwinIndices, to \in TwinIndices : BothRemoveEdge(from, to) /\ Succeeds

SpecTwin == Init /\ [][NextTwin]_vars

(***************************************************************************)
(* The walks taken in steps.  The caller builds a graph over the integers  *)
(* 0..MaxStepIndex with the calls that succeed, then calls                 *)
(* getBiconnectedComponents or export; the call runs one statement group   *)
(* of the walk at a time: the loop over graph.#vertices, the entry into a  *)
(* neighbor not visited, the push of a back edge, the passing over of a    *)
(* neighbor, the return from an activation, the end of the call.           *)
(***************************************************************************)

\* A walk is under way and no statement of it has thrown.
Walking == walker.phase = "walking" /\ ~walker.dfs.failed

Extended == walker.mode = "extended"

\* The activation running: the innermost one.
Top == walker.frames[Len(walker.frames)]

\* The head of the walks without the visits.set that marks the vertex.
enterUnmarked(w, vertex) ==
  LET time == w.dfs.time + 1
  IN [w EXCEPT !.dfs.time = time,
               !.dfs.lowlinks = IF w.mode = "extended" THEN mapSet(@, vertex, time) ELSE @,
               !.frames = Append(@, [vertex |-> vertex, k |-> 1, children |-> 0]),
               !.entered = Append(@, vertex)]

\* The head of #walkDepthFirstExtended (lines 407-410) and of #walkDepthFirst
\* (lines 446-448) entered with vertex: a new activation.
enter(w, vertex) ==
  LET time == w.dfs.time + 1
  IN [w EXCEPT !.dfs.time = time,
               !.dfs.lowlinks = IF w.mode = "extended" THEN mapSet(@, vertex, time) ELSE @,
               !.dfs.visits = mapSet(@, vertex, time),
               !.frames = Append(@, [vertex |-> vertex, k |-> 1, children |-> 0]),
               !.entered = Append(@, vertex)]

\* The caller enters getBiconnectedComponents (mode "extended") or export
\* (mode "plain"): new GraphDFS().
Begin(mode) ==
  /\ walker.phase = "none"
  /\ walker' = [NoWalk EXCEPT !.phase = "walking", !.mode = mode]
  /\ call' = [op |-> IF mode = "extended" THEN "getBiconnectedComponents" ELSE "export",
              from |-> 0, to |-> 0, error |-> "pending"]
  /\ components' = << >>
  /\ UNCHANGED <<graph, input, notation, twin, board, apart>>

\* The loop over graph.#vertices finds its vertex not visited and walks from
\* it.
StartRoot ==
  /\ Walking /\ walker.frames = << >> /\ walker.root <= Len(graph.vertices)
  /\ LET vertex == graph.vertices[walker.root].vertex
     IN /\ ~has(walker.dfs.visits, vertex)
        /\ walker' = enter(walker, vertex)
  /\ UNCHANGED <<graph, call, components, input, notation, twin, board, apart>>

\* The loop over graph.#vertices is past the walk from its vertex, or found
\* the vertex visited: getBiconnectedComponents flushes the stack into
\* #paths; the loop goes on to the next vertex.
NextRoot ==
  /\ Walking /\ walker.frames = << >> /\ walker.root <= Len(graph.vertices)
  /\ has(walker.dfs.visits, graph.vertices[walker.root].vertex)
  /\ walker' = IF Extended
               THEN [walker EXCEPT !.root = @ + 1,
                                   !.dfs.paths = Append(@, walker.dfs.stack),
                                   !.dfs.stack = << >>]
               ELSE [walker EXCEPT !.root = @ + 1]
  /\ UNCHANGED <<graph, call, components, input, notation, twin, board, apart>>

\* The loop over vertex.neighbors finds a neighbor not visited: the tree
\* edge is pushed and the method is entered with the neighbor.
Descend ==
  /\ Walking /\ walker.frames # << >>
  /\ Top.k <= Len(graph.neighbors[Top.vertex])
  /\ LET vertex == Top.vertex
         neighbor == graph.neighbors[vertex][Top.k]
     IN /\ ~has(walker.dfs.visits, neighbor)
        /\ walker' = enter([walker EXCEPT
                              !.frames[Len(walker.frames)].children = @ + 1,
                              !.dfs.parent = mapSet(@, neighbor, vertex),
                              !.dfs.stack = Append(@, <<vertex, neighbor>>),
                              !.pushed = Append(@, <<vertex, neighbor>>)],
                           neighbor)
  /\ UNCHANGED <<graph, call, components, input, notation, twin, board, apart>>

\* The loop over vertex.neighbors finds a visited neighbor that is not the
\* parent and was visited earlier: the edge is pushed, and the extended walk
\* tightens the lowlink of the vertex.
BackEdge ==
  /\ Walking /\ walker.frames # << >>
  /\ Top.k <= Len(graph.neighbors[Top.vertex])
  /\ LET vertex == Top.vertex
         neighbor == graph.neighbors[vertex][Top.k]
     IN /\ has(walker.dfs.visits, neighbor)
        /\ isBackEdge(walker.dfs, vertex, neighbor)
        /\ walker' = [walker EXCEPT
                        !.frames[Len(walker.frames)].k = @ + 1,
                        !.dfs.lowlinks =
                           IF Extended /\ @[vertex] > walker.dfs.visits[neighbor]
                           THEN mapSet(@, vertex, walker.dfs.visits[neighbor]) ELSE @,
                        !.dfs.stack = Append(@, <<vertex, neighbor>>),
                        !.pushed = Append(@, <<vertex, neighbor>>)]
  /\ UNCHANGED <<graph, call, components, input, notation, twin, board, apart>>

\* The loop over vertex.neighbors finds a visited neighbor that is the
\* parent or was not visited earlier: nothing is done.
PassOver ==
  /\ Walking /\ walker.frames # << >>
  /\ Top.k <= Len(graph.neighbors[Top.vertex])
  /\ LET vertex == Top.vertex
         neighbor == graph.neighbors[vertex][Top.k]
     IN /\ has(walker.dfs.visits, neighbor)
        /\ ~isBackEdge(walker.dfs, vertex, neighbor)
        /\ walker' = [walker EXCEPT !.frames[Len(walker.frames)].k = @ + 1]
  /\ UNCHANGED <<graph, call, components, input, notation, twin, board, apart>>

\* resume with the lowlink of the vertex set to that of the neighbor whether
\* it is smaller or not.
resumeAssigning(w, neighbor) ==
  LET depth == Len(w.frames)
      vertex == w.frames[depth].vertex
      children == w.frames[depth].children
      d1 == [w.dfs EXCEPT !.lowlinks = mapSet(@, vertex, w.dfs.lowlinks[neighbor])]
      p == popPath(d1.stack, vertex, neighbor, << >>)
      d2 == IF closesComponent(d1, vertex, neighbor, children)
            THEN [d1 EXCEPT !.stack = p.stack, !.paths = Append(@, p.path),
                            !.failed = p.failed]
            ELSE d1
  IN [w EXCEPT !.frames[depth].k = @ + 1,
               !.dfs = IF w.mode = "extended" THEN d2 ELSE @]

\* The walker after the return of the innermost activation into the one
\* that called it for the tree edge to neighbor: lines 421-432 of the
\* extended walk, nothing in the plain one, and the loop goes on.
resume(w, neighbor) ==
  LET depth == Len(w.frames)
      vertex == w.frames[depth].vertex
      children == w.frames[depth].children
      d1 == IF w.dfs.lowlinks[vertex] > w.dfs.lowlinks[neighbor]
            THEN [w.dfs EXCEPT !.lowlinks = mapSet(@, vertex, w.dfs.lowlinks[neighbor])]
            ELSE w.dfs
      p == popPath(d1.stack, vertex, neighbor, << >>)
      d2 == IF closesComponent(d1, vertex, neighbor, children)
            THEN [d1 EXCEPT !.stack = p.stack, !.paths = Append(@, p.path),
                            !.failed = p.failed]
            ELSE d1
  IN [w EXCEPT !.frames[depth].k = @ + 1,
               !.dfs = IF w.mode = "extended" THEN d2 ELSE @]

\* The loop over vertex.neighbors is over: the activation returns, into the
\* activation that called it or into the loop over graph.#vertices.
Return ==
  /\ Walking /\ walker.frames # << >>
  /\ Top.k > Len(graph.neighbors[Top.vertex])
  /\ LET outer == [walker EXCEPT !.frames = SubSeq(@, 1, Len(@) - 1)]
     IN walker' = IF outer.frames = << >> THEN outer ELSE resume(outer, Top.vertex)
  /\ UNCHANGED <<graph, call, components, input, notation, twin, board, apart>>

\* The loop over graph.#vertices is over: getBiconnectedComponents maps the
\* paths kept by the filter to graphs, export maps the stack to connections.
\* The peek of an empty stack has thrown: the call ends with the error.
Finish ==
  /\ walker.phase = "walking"
  /\ walker.dfs.failed \/ (walker.frames = << >> /\ walker.root > Len(graph.vertices))
  /\ walker' = [walker EXCEPT !.phase = "done", !.frames = << >>]
  /\ IF walker.dfs.failed
     THEN /\ call' = [call EXCEPT !.error = "StackEmpty"]
          /\ UNCHANGED <<components, notation>>
     ELSE IF Extended
     THEN LET r == pathsToGraphs(graph, SelectSeq(walker.dfs.paths, LAMBDA path : Len(path) > 0))
          IN /\ components' = r.graphs
             /\ call' = [call EXCEPT !.error = r.error]
             /\ UNCHANGED notation
     ELSE LET edges == stackClear(walker.dfs.stack)
          IN /\ notation' =
                  [vertices |-> [k \in 1..Len(graph.vertices) |-> graph.vertices[k].index],
                   connections |-> [k \in 1..Len(edges) |->
                                      [from |-> getIndex(graph, edges[k][1]),
                                       to |-> getIndex(graph, edges[k][2])]]]
             /\ call' = [call EXCEPT !.error = "none"]
             /\ UNCHANGED components
  /\ UNCHANGED <<graph, input, twin, board, apart>>

Building == walker.phase = "none"

NextSteps ==
  \/ \E index \in StepIndices :
       /\ Building
       /\ \A live \in verticesOf(graph) : live < index
       /\ AddVertex(index) /\ Succeeds
  \/ \E index \in StepIndices : Building /\ RemoveVertex(index) /\ Succeeds
  \/ \E from \in StepIndices, to \in StepIndices :
       Building /\ AddEdge(from, to) /\ Succeeds /\ edgeCount(graph') <= MaxStepEdges
  \/ \E from \in StepIndices, to \in StepIndices :
       Building /\ RemoveEdge(from, to) /\ Succeeds
  \/ \E mode \in {"extended", "plain"} : Begin(mode)
  \/ StartRoot
  \/ NextRoot
  \/ Descend
  \/ BackEdge
  \/ PassOver
  \/ Return
  \/ Finish

SpecSteps == Init /\ [][NextSteps]_vars

\* A call, once made, runs to its end: the walks are synchronous code, no
\* statement of them waits for anything.  RunWalk is any statement group of
\* the walk; Ending is the step Finish as the walk sees it, the mapping of
\* the result left aside.
RunWalk == StartRoot \/ NextRoot \/ Descend \/ BackEdge \/ PassOver \/ Return

Ending ==
  /\ walker.phase = "walking"
  /\ walker.dfs.failed \/ (walker.frames = << >> /\ walker.root > Len(graph.vertices))
  /\ walker' = [walker EXCEPT !.phase = "done", !.frames = << >>]

SpecStepsFair == Init /\ [][NextSteps]_vars /\ WF_vars(RunWalk) /\ WF_walker(Ending)

(***************************************************************************)
(* The board page (Board/Script.js).  Its graph is the variable graph.     *)
(* Positions are not kept.  #canPlaceAt and #canMoveAt keep the vertex     *)
(* members two radii apart and isMesh of a vertex member holds within one  *)
(* radius, so a point of the canvas is on one vertex member, the one       *)
(* getMemberAt returns, or on none; a pointer event is given by what its   *)
(* point is on and whether a vertex can be placed there.  A vertex member  *)
(* being moved changes nothing but its position.  The colors of the        *)
(* members and the Set EdgeMember.#members, which only feeds the           *)
(* highlighting, are left out.  A listener that throws ends there and its  *)
(* dispatchEvent returns normally (Node.dispatchEvent is that of           *)
(* EventTarget); call keeps the last call on the graph a handler made.     *)
(***************************************************************************)

VertexIds == 1 .. MaxPlaced

EdgeIds == 1 .. MaxDrawn

\* The vertex member, the edge member, of an identity.
vertexMember(b, id) ==
  b.vertices[CHOOSE k \in 1..Len(b.vertices) : b.vertices[k].id = id]

edgeMember(b, id) ==
  b.edges[CHOOSE k \in 1..Len(b.edges) : b.edges[k].id = id]

\* The board with the #connections of vertex member id replaced.
withConnections(b, id, connections) ==
  [b EXCEPT !.vertices = [k \in 1..Len(@) |->
                            IF @[k].id = id THEN [@[k] EXCEPT !.connections = connections]
                            ELSE @[k]]]

\* The link, the unlink listener of vertex member id, for edge.
link(b, id, edge) == withConnections(b, id, SetAdd(vertexMember(b, id).connections, edge))

unlink(b, id, edge) == withConnections(b, id, SetDelete(vertexMember(b, id).connections, edge))

\* progenitor.children.remove of an edge member, of a vertex member.
removeEdgeMember(b, edge) ==
  [b EXCEPT !.edges = SelectSeq(@, LAMBDA e : e.id # edge)]

removeVertexMember(b, id) ==
  [b EXCEPT !.vertices = SelectSeq(@, LAMBDA v : v.id # id)]

\* Map.prototype.set, Map.prototype.delete on VertexMember.#members.
membersSet(members, index, id) ==
  IF \E k \in 1..Len(members) : members[k].index = index
  THEN [k \in 1..Len(members) |->
          IF members[k].index = index THEN [index |-> index, vertex |-> id] ELSE members[k]]
  ELSE Append(members, [index |-> index, vertex |-> id])

membersDelete(members, index) == SelectSeq(members, LAMBDA e : e.index # index)

\* The index the attach listener of a vertex member takes, reusing the
\* least index no member has.
freeIndex(b) ==
  CHOOSE i \in { Integer(n) : n \in 0..Len(b.members) } :
    /\ \A k \in 1..Len(b.members) : b.members[k].index # i
    /\ \A j \in { Integer(n) : n \in 0..Len(b.members) } :
         (\A k \in 1..Len(b.members) : b.members[k].index # j) => i <= j

\* The index the attach listener of a vertex member takes: the value of
\* VertexMember.#counter before the increment.
counterIndex(b) == b.counter

\* VertexMember.tryAttachAt(point) with the attach listener, canPlaceAt
\* telling whether #canPlaceAt(point) holds: [board, graph, call].
tryAttachAt(b, g, canPlaceAt) ==
  IF ~canPlaceAt
  THEN [board |-> b, graph |-> g, call |-> NoCall]
  ELSE LET id == CHOOSE i \in VertexIds :
                   /\ \A k \in 1..Len(b.vertices) : b.vertices[k].id # i
                   /\ \A j \in VertexIds :
                        (\A k \in 1..Len(b.vertices) : b.vertices[k].id # j) => i <= j
           index == counterIndex(b)
           r == addVertex(g, index)
       IN [board |-> [b EXCEPT
                        !.counter = @ + Integer(1),
                        !.vertices = Append(@, [id |-> id, index |-> index,
                                                connections |-> << >>]),
                        !.members = membersSet(@, index, id),
                        !.given = Append(@, index)],
           graph |-> r.graph,
           call |-> [op |-> "addVertex", from |-> index, to |-> index, error |-> r.error]]

\* The detach listener of an edge member: [graph, call]; the getter ensured
\* of an empty socket throws.
detachEdge(b, g, edge) ==
  LET e == edgeMember(b, edge)
  IN IF e.from = 0 \/ e.to = 0
     THEN [graph |-> g,
           call |-> [op |-> "removeEdge", from |-> 0, to |-> 0, error |-> "SocketEmpty"]]
     ELSE LET from == vertexMember(b, e.from).index
              to == vertexMember(b, e.to).index
              r == removeEdge(g, from, to)
          IN [graph |-> r.graph,
              call |-> [op |-> "removeEdge", from |-> from, to |-> to, error |-> r.error]]

\* The unlink listener of an edge member, for the vertex member id that
\* lets it go: detach, both sockets emptied, unlink dispatched to the
\* vertex of the other socket, the edge member removed.
unlinkEdge(b, g, edge, id) ==
  LET e == edgeMember(b, edge)
      r == detachEdge(b, g, edge)
      previous == IF e.from = id THEN e.to ELSE e.from
  IN [board |-> removeEdgeMember(unlink(b, previous, edge), edge),
      graph |-> r.graph, call |-> r.call]

\* The loop of the click listener of vertex member id over its
\* #connections: each pass takes the first edge left in the Set.
RECURSIVE unlinkAll(_, _, _, _)
unlinkAll(b, g, id, last) ==
  LET connections == vertexMember(b, id).connections
  IN IF connections = << >> THEN [board |-> b, graph |-> g, call |-> last]
     ELSE LET edge == Head(connections)
              r == unlinkEdge(unlink(b, id, edge), g, edge, id)
          IN unlinkAll(r.board, r.graph, id, r.call)

\* The click listener of vertex member id past its guard, with the detach
\* listener: [board, graph, call].
clickVertex(b, g, id) ==
  LET r == unlinkAll(b, g, id, NoCall)
      index == vertexMember(b, id).index
      d == removeVertex(r.graph, index)
  IN [board |-> [removeVertexMember(r.board, id) EXCEPT
                   !.members = IF d.error = "none" THEN membersDelete(@, index) ELSE @],
      graph |-> d.graph,
      call |-> [op |-> "removeVertex", from |-> index, to |-> index, error |-> d.error]]

\* The click listener of an edge member past its guard: [board, graph, call].
clickEdge(b, g, edge) ==
  LET e == edgeMember(b, edge)
      r == detachEdge(b, g, edge)
  IN [board |-> removeEdgeMember(unlink(unlink(b, e.from, edge), e.to, edge), edge),
      graph |-> r.graph, call |-> r.call]

\* EdgeMember.tryAttachFrom(vertex) up to its await: a new edge member with
\* the vertex in its first socket, linked to the vertex.
tryAttachFrom(b, id) ==
  LET edge == CHOOSE i \in EdgeIds :
                /\ \A k \in 1..Len(b.edges) : b.edges[k].id # i
                /\ \A j \in EdgeIds :
                     (\A k \in 1..Len(b.edges) : b.edges[k].id # j) => i <= j
  IN [link([b EXCEPT !.edges = Append(@, [id |-> edge, from |-> id, to |-> 0])], id, edge)
        EXCEPT !.gesture = [kind |-> "edge", vertex |-> id, edge |-> edge]]

\* EdgeMember.tryAttachFrom past its await, target being what getMemberAt
\* returns for the point of the dragend, 0 for null: the edge member is
\* dropped when no vertex member is there, and else gets it in its second
\* socket, with the attach listener: [board, graph, call].
attachTo(b, g, target) ==
  LET id == b.gesture.vertex
      edge == b.gesture.edge
      from == vertexMember(b, id).index
      to == vertexMember(b, target).index
      r == addEdge(g, from, to)
      rested == [b EXCEPT !.gesture = NoGesture]
  IN IF target = 0
     THEN [board |-> unlink(removeEdgeMember(rested, edge), id, edge),
           graph |-> g, call |-> NoCall]
     ELSE [board |-> link([rested EXCEPT
                             !.edges = [k \in 1..Len(@) |->
                                          IF @[k].id = edge THEN [@[k] EXCEPT !.to = target]
                                          ELSE @[k]]],
                          target, edge),
           graph |-> r.graph,
           call |-> [op |-> "addEdge", from |-> from, to |-> to, error |-> r.error]]

\* The page after window load: an empty graph, nothing on the board.
InitBoard ==
  /\ graph = EmptyGraph
  /\ call = NoCall
  /\ components = << >>
  /\ input = NoNotation
  /\ notation = NoNotation
  /\ twin = EmptyGraph
  /\ walker = NoWalk
  /\ board = [NoBoard EXCEPT !.phase = "loaded"]
  /\ derived = EmptyGraph
  /\ Untouched

\* No drag is under way: the pointer is free for a new gesture.
Resting == board.gesture.kind = "none"

\* The user checks the other tool; both inputs are disabled while the
\* program executes.
SelectTool(tool) ==
  /\ ~board.execute /\ board.tool # tool
  /\ board' = [board EXCEPT !.tool = tool]
  /\ call' = NoCall
  /\ UNCHANGED <<graph, components, input, notation, twin, walker, apart>>

\* The change listener of inputExecuteProgram: the switch can be turned by
\* the keyboard or another pointer at any time, a drag under way included.
ToggleExecute ==
  /\ board' = [board EXCEPT !.execute = ~@]
  /\ IF ~board.execute
     THEN LET r == getBiconnectedComponents(graph)
          IN /\ components' = r.graphs
             /\ call' = [op |-> "getBiconnectedComponents", from |-> 0, to |-> 0,
                         error |-> r.error]
     ELSE components' = << >> /\ call' = NoCall
  /\ UNCHANGED <<graph, input, notation, twin, walker, apart>>

\* The click listener of userInterface, at a point where a vertex can be
\* placed or cannot.
ClickInterface(canPlaceAt) ==
  /\ Resting
  /\ ~(board.execute \/ board.tool # "vertex")
  /\ board.counter < Integer(MaxPlaced)
  /\ LET r == tryAttachAt(board, graph, canPlaceAt)
     IN board' = r.board /\ graph' = r.graph /\ call' = r.call
  /\ UNCHANGED <<components, input, notation, twin, walker, apart>>

\* The click listener of a vertex member.
ClickVertex(id) ==
  /\ Resting
  /\ \E k \in 1..Len(board.vertices) : board.vertices[k].id = id
  /\ ~(board.execute \/ board.tool # "vertex")
  /\ LET r == clickVertex(board, graph, id)
     IN board' = r.board /\ graph' = r.graph /\ call' = r.call
  /\ UNCHANGED <<components, input, notation, twin, walker, apart>>

\* The click listener of an edge member; isMesh holds only for an edge
\* member with both sockets filled, by vertices at different positions.
ClickEdge(edge) ==
  /\ Resting
  /\ \E k \in 1..Len(board.edges) :
       /\ board.edges[k].id = edge
       /\ board.edges[k].from # 0 /\ board.edges[k].to # 0
       /\ board.edges[k].from # board.edges[k].to
  /\ ~(board.execute \/ board.tool # "edge")
  /\ LET r == clickEdge(board, graph, edge)
     IN board' = r.board /\ graph' = r.graph /\ call' = r.call
  /\ UNCHANGED <<components, input, notation, twin, walker, apart>>

\* The two dragbegin listeners of a vertex member: #setMoveState under the
\* vertex tool, EdgeMember.tryAttachFrom under the edge tool.
DragBegin(id) ==
  /\ Resting
  /\ \E k \in 1..Len(board.vertices) : board.vertices[k].id = id
  /\ ~board.execute
  /\ IF board.tool = "vertex"
     THEN board' = [board EXCEPT !.gesture = [kind |-> "move", vertex |-> id, edge |-> 0]]
     ELSE Len(board.edges) < MaxDrawn /\ board' = tryAttachFrom(board, id)
  /\ call' = NoCall
  /\ UNCHANGED <<graph, components, input, notation, twin, walker, apart>>

\* The dragend listener #setMoveState registers: the vertex member stays
\* where it was dragged to or goes back to where the drag began.
DragEndMove ==
  /\ board.gesture.kind = "move"
  /\ board' = [board EXCEPT !.gesture = NoGesture]
  /\ call' = NoCall
  /\ UNCHANGED <<graph, components, input, notation, twin, walker, apart>>

\* The dragend listener EdgeMember.tryAttachFrom registers, the pointer
\* released on vertex member target or, target 0, on none.
DragEndEdge(target) ==
  /\ board.gesture.kind = "edge"
  /\ target # 0 => \E k \in 1..Len(board.members) : board.members[k].vertex = target
  /\ LET r == attachTo(board, graph, target)
     IN board' = r.board /\ graph' = r.graph /\ call' = r.call
  /\ UNCHANGED <<components, input, notation, twin, walker, apart>>

NextBoard ==
  \/ \E tool \in {"vertex", "edge"} : SelectTool(tool)
  \/ ToggleExecute
  \/ \E canPlaceAt \in BOOLEAN : ClickInterface(canPlaceAt)
  \/ \E id \in VertexIds : ClickVertex(id)
  \/ \E edge \in EdgeIds : ClickEdge(edge)
  \/ \E id \in VertexIds : DragBegin(id)
  \/ DragEndMove
  \/ \E target \in VertexIds \cup {0} : DragEndEdge(target)

SpecBoard == InitBoard /\ [][NextBoard]_vars

(***************************************************************************)
(* The caller of the queries.  It builds a graph in the order of the       *)
(* indices, asks for its vertices, neighbors, walk, notation, subgraphs    *)
(* and components, and keeps one of the graphs returned (derived) for the  *)
(* call that follows, which may edit either graph; with the call after     *)
(* that the graph kept is let go.  Both graphs lie in one store of vertex  *)
(* objects: graph.neighbors and derived.neighbors are the same function    *)
(* at all times, the #neighbors of every Graph.Vertex object there is.     *)
(* walker.dfs is the GraphDFS object the last call left behind, when that  *)
(* call was a walk.  notation, components and call.result are what the     *)
(* last call returned.                                                     *)
(***************************************************************************)

\* const dfs = new GraphDFS(), last being the object of the walk before.
newGraphDFS(last) == NewDFS

\* Graph.DFS.getBiconnectedComponents on the GraphDFS object dfs0:
\* [graphs, error, dfs].
decompose(g, dfs0) ==
  LET dfs == rootsExtended(g, dfs0, 1)
      r == IF dfs.failed THEN [graphs |-> << >>, error |-> "StackEmpty"]
           ELSE pathsToGraphs(g, SelectSeq(dfs.paths, LAMBDA path : Len(path) > 0))
  IN [graphs |-> r.graphs, error |-> r.error, dfs |-> dfs]

\* Graph.DFS.walkDepthFirst on the GraphDFS object dfs0: [edges, dfs].
walkFrom(g, dfs0) ==
  LET dfs == rootsPlain(g, dfs0, 1)
      edges == stackClear(dfs.stack)
  IN [edges |-> [k \in 1..Len(edges) |->
                   <<getIndex(g, edges[k][1]), getIndex(g, edges[k][2])>>],
      dfs |-> [dfs EXCEPT !.stack = << >>]]

\* The store with the objects that are no live vertex of g dropped, as the
\* collector drops the objects of a graph the caller has let go.
collected(g) ==
  LET live == { g.vertices[k].vertex : k \in 1..Len(g.vertices) }
  IN [v \in Heap |-> IF v \in live THEN g.neighbors[v] ELSE << >>]

\* new Graph.Vertex() in addVertex(index) of graph g with graph h live too:
\* a reference neither has in use, the one numbered base after the index
\* when it is free and the least free one otherwise.
newVertexOfBoth(g, h, index, base) ==
  LET free == Heap \ (Referenced(g) \cup Referenced(h))
      named == base + (index \div 2) + 1
  IN IF named \in free THEN named ELSE CHOOSE v \in free : \A u \in free : v <= u

\* Where the vertex objects of the graph kept are numbered from.
derivedBase == MaxQueryIndex + 1

\* A graph a query returns whose #vertices holds the vertex objects of the
\* source, not objects of its own.
settleOnSource(source, sub) ==
  [vertices |-> [k \in 1..Len(sub.vertices) |->
                   [index |-> sub.vertices[k].index,
                    vertex |-> vertexOf(source, sub.vertices[k].index)]],
   indices |-> [v \in { vertexOf(source, sub.vertices[k].index) : k \in 1..Len(sub.vertices) }
                  |-> source.indices[v]],
   neighbors |-> collected(source)]

\* A graph a query built with new Graph(), addVertex and addEdge, laid in
\* the store of the source: every new Graph.Vertex() of its addVertex calls
\* gave an object not in use.
settle(source, sub) ==
  LET store == collected(source)
      inUse == Referenced([source EXCEPT !.neighbors = store])
      free == Heap \ inUse
      named(k) == derivedBase + (sub.vertices[k].index \div 2) + 1
      ordered == \A k \in 1..Len(sub.vertices) : named(k) \in free
      place(k) == IF ordered THEN named(k)
                  ELSE CHOOSE v \in free : Cardinality({ u \in free : u < v }) = k - 1
      position(v) == CHOOSE k \in 1..Len(sub.vertices) : sub.vertices[k].vertex = v
      placed == { place(k) : k \in 1..Len(sub.vertices) }
      origin(v) == sub.vertices[CHOOSE k \in 1..Len(sub.vertices) : place(k) = v].vertex
  IN [vertices |-> [k \in 1..Len(sub.vertices) |->
                      [index |-> sub.vertices[k].index, vertex |-> place(k)]],
      indices |-> [v \in placed |-> sub.indices[origin(v)]],
      neighbors |-> [v \in Heap |->
                       IF v \in placed
                       THEN LET ns == sub.neighbors[origin(v)]
                            IN [j \in 1..Len(ns) |-> place(position(ns[j]))]
                       ELSE store[v]]]

\* One call of the mutation interface on graph g, vertex being the object
\* new Graph.Vertex() gives: [graph, error].
perform(g, op, from, to, vertex) ==
  CASE op = "addVertex" -> addVertexAs(g, from, vertex)
    [] op = "removeVertex" -> removeVertex(g, from)
    [] op = "addEdge" -> addEdge(g, from, to)
    [] op = "removeEdge" -> removeEdge(g, from, to)

\* The last call returned the graph the caller keeps.
Kept ==
  /\ call.op \in {"getSubgraphWith", "getBiconnectedComponents"}
  /\ call.error = "none"
  /\ derived.vertices # << >>

\* The two graphs as the next call finds them: the graph kept is let go
\* unless the last call returned it.
original == IF Kept THEN graph ELSE [graph EXCEPT !.neighbors = collected(graph)]

held == IF Kept THEN derived ELSE [EmptyGraph EXCEPT !.neighbors = collected(graph)]

\* A call of the mutation interface on the source graph that returns
\* normally.
EditSource(op, from, to) ==
  LET r == perform(original, op, from, to, newVertexOfBoth(original, held, from, 0))
  IN /\ op = "addVertex" => \A live \in verticesOf(graph) : live < from
     /\ r.error = "none"
     /\ edgeCount(r.graph) <= MaxQueryEdges
     /\ graph' = r.graph
     /\ derived' = [held EXCEPT !.neighbors = r.graph.neighbors]
     /\ call' = [op |-> op, from |-> from, to |-> to, error |-> r.error, on |-> "source"]
     /\ components' = << >>
     /\ notation' = NoNotation
     /\ walker' = NoWalk
     /\ UNCHANGED <<input, twin, board, pressed, pointer, casts>>

\* A call of the mutation interface on the graph kept that returns
\* normally.
EditDerived(op, from, to) ==
  LET r == perform(derived, op, from, to, newVertexOfBoth(graph, derived, from, derivedBase))
  IN /\ Kept
     /\ r.error = "none"
     /\ derived' = r.graph
     /\ graph' = [graph EXCEPT !.neighbors = r.graph.neighbors]
     /\ call' = [op |-> op, from |-> from, to |-> to, error |-> r.error, on |-> "derived"]
     /\ components' = << >>
     /\ notation' = NoNotation
     /\ walker' = NoWalk
     /\ UNCHANGED <<input, twin, board, pressed, pointer, casts>>

\* graph.vertices: a new Set of the keys of #vertices.
QueryVertices ==
  /\ call' = [op |-> "vertices", from |-> 0, to |-> 0, error |-> "none", on |-> "source",
              result |-> [k \in 1..Len(graph.vertices) |-> graph.vertices[k].index]]
  /\ graph' = original
  /\ derived' = held
  /\ components' = << >>
  /\ notation' = NoNotation
  /\ walker' = NoWalk
  /\ UNCHANGED <<input, twin, board, pressed, pointer, casts>>

\* graph.getNeighborsOf(index).
QueryNeighbors(index) ==
  LET r == getNeighborsOf(original, index)
  IN /\ call' = [op |-> "getNeighborsOf", from |-> index, to |-> index, error |-> r.error,
                 on |-> "source", result |-> r.neighbors]
     /\ graph' = original
     /\ derived' = held
     /\ components' = << >>
     /\ notation' = NoNotation
     /\ walker' = NoWalk
     /\ UNCHANGED <<input, twin, board, pressed, pointer, casts>>

\* graph.getSubgraphWith(new Set(arrayVertices)), the caller keeping the
\* graph returned in the place of the one it kept.
QuerySubgraph(arrayVertices) ==
  LET r == getSubgraphWith(original, arrayVertices)
      kept == settle(original, r.graph)
  IN /\ call' = [op |-> "getSubgraphWith", from |-> 0, to |-> 0, error |-> r.error,
                 on |-> "source", vertices |-> arrayVertices]
     /\ IF r.error = "none"
        THEN /\ components' = <<r.graph>>
             /\ derived' = kept
             /\ graph' = [graph EXCEPT !.neighbors = kept.neighbors]
        ELSE /\ components' = << >>
             /\ graph' = original
             /\ derived' = held
     /\ notation' = NoNotation
     /\ walker' = NoWalk
     /\ UNCHANGED <<input, twin, board, pressed, pointer, casts>>

\* Graph.DFS.getBiconnectedComponents(graph), the caller keeping the k-th of
\* the graphs returned in the place of the one it kept, with k = 0 none.
QueryComponents(k) ==
  LET r == decompose(original, newGraphDFS(walker.dfs))
      kept == settle(original, r.graphs[k])
  IN /\ k <= Len(r.graphs)
     /\ call' = [op |-> "getBiconnectedComponents", from |-> 0, to |-> 0, error |-> r.error,
                 on |-> "source"]
     /\ components' = r.graphs
     /\ walker' = [NoWalk EXCEPT !.dfs = r.dfs]
     /\ IF k = 0
        THEN /\ graph' = [graph EXCEPT !.neighbors = collected(graph)]
             /\ derived' = [EmptyGraph EXCEPT !.neighbors = collected(graph)]
        ELSE /\ derived' = kept
             /\ graph' = [graph EXCEPT !.neighbors = kept.neighbors]
     /\ notation' = NoNotation
     /\ UNCHANGED <<input, twin, board, pressed, pointer, casts>>

\* Graph.DFS.walkDepthFirst(graph).
QueryWalk ==
  LET r == walkFrom(original, newGraphDFS(walker.dfs))
  IN /\ call' = [op |-> "walkDepthFirst", from |-> 0, to |-> 0, error |-> "none",
                 on |-> "source", result |-> r.edges]
     /\ walker' = [NoWalk EXCEPT !.dfs = r.dfs]
     /\ graph' = original
     /\ derived' = held
     /\ components' = << >>
     /\ notation' = NoNotation
     /\ UNCHANGED <<input, twin, board, pressed, pointer, casts>>

\* graph.export(), which calls Graph.DFS.walkDepthFirst(this).
QueryExport ==
  LET r == walkFrom(original, newGraphDFS(walker.dfs))
  IN /\ call' = [op |-> "export", from |-> 0, to |-> 0, error |-> "none", on |-> "source"]
     /\ notation' = [vertices |-> [k \in 1..Len(graph.vertices) |-> graph.vertices[k].index],
                     connections |-> [k \in 1..Len(r.edges) |->
                                        [from |-> r.edges[k][1], to |-> r.edges[k][2]]]]
     /\ walker' = [NoWalk EXCEPT !.dfs = r.dfs]
     /\ graph' = original
     /\ derived' = held
     /\ components' = << >>
     /\ UNCHANGED <<input, twin, board, pressed, pointer, casts>>

NextQueries ==
  \/ \E op \in {"addVertex", "removeVertex", "addEdge", "removeEdge"},
        from \in QueryIndices, to \in QueryIndices :
       /\ op \in {"addVertex", "removeVertex"} => to = from
       /\ EditSource(op, from, to)
  \/ \E op \in {"addVertex", "removeVertex", "addEdge", "removeEdge"},
        from \in QueryIndices, to \in QueryIndices :
       /\ op \in {"addVertex", "removeVertex"} => to = from
       /\ EditDerived(op, from, to)
  \/ QueryVertices
  \/ \E index \in QueryIndices : QueryNeighbors(index)
  \/ \E arrayVertices \in ArraysOver(QueryIndices) : QuerySubgraph(arrayVertices)
  \/ \E k \in 0..MaxQueryEdges : QueryComponents(k)
  \/ QueryWalk
  \/ QueryExport

SpecQueries == Init /\ [][NextQueries]_vars

(***************************************************************************)
(* The pointer of the engine                                               *)
(*                                                                         *)
(* The constructor of Progenitor (src/Scripts/Components/Node.js) turns    *)
(* the mouse and touch events of the browser into flags and its update     *)
(* listener turns the flags into pointerdown, pointerup and pointermove    *)
(* events of the progenitor.  Entity.#rayCast (Finalizer.js) listens to    *)
(* pointerdown and, when an entity is under the point, starts a closure    *)
(* whose timer and listeners dispatch hold, dragbegin, drag, dragend and   *)
(* click to that entity.  The browser events, the update ticks and the     *)
(* timers interleave freely.  One entity is on the canvas; points lie on   *)
(* one line, in pixels, so hypot is the absolute difference.               *)
(***************************************************************************)

\* Most pointerdown events the progenitor is made to dispatch.
MaxPointerDowns == 2

\* Most drag events one entity is made to receive in one gesture.
MaxDrags == 2

\* The points the browser events arrive at.
Points == {0, 3, 6, 9}

\* Entity.isMesh(point) of the one entity, at position 4 with size 8.
isMesh(point) == 4 - 8 \div 2 <= point /\ point < 4 + 8 \div 2

\* isGoneAway() of #rayCast: hypot(pointCurrentPosition - position) > 4.
isGoneAway(pointCurrentPosition, position) ==
  (IF pointCurrentPosition >= position THEN pointCurrentPosition - position
   ELSE position - pointCurrentPosition) > 4

\* How many times an event type occurs in a sequence of them.
RECURSIVE occurrences(_, _)
occurrences(types, type) ==
  IF types = << >> THEN 0
  ELSE (IF Head(types) = type THEN 1 ELSE 0) + occurrences(Tail(types), type)

\* controller.abort() of #rayCast: the abort listener clears the timer and
\* the pointerup and pointermove listeners leave the progenitor.  Of a
\* closure without listeners and timer only the events it dispatched matter.
abort(cast) ==
  [cast EXCEPT !.aborted = TRUE,
               !.timer = IF cast.timer = "set" THEN "cleared" ELSE cast.timer,
               !.position = NaN, !.pointCurrentPosition = NaN, !.isMoved = FALSE]

\* #rayCast(position): nothing without a target, else a closure with its
\* timer set and its two listeners on the progenitor.  events: what the
\* closure dispatched to the entity.
rayCast(cs, position) ==
  IF ~isMesh(position) THEN cs
  ELSE Append(cs, [position |-> position, pointCurrentPosition |-> position,
                   isMoved |-> FALSE, timer |-> "set", aborted |-> FALSE,
                   events |-> << >>])

\* The callback of setTimeout in #rayCast.
holdTimeout(cast) ==
  abort([cast EXCEPT !.events = Append(@, "hold"), !.timer = "fired"])

\* The pointerup listener of #rayCast.
pointerupListener(cast) ==
  abort(IF cast.isMoved THEN [cast EXCEPT !.events = Append(@, "dragend")]
        ELSE IF isMesh(cast.pointCurrentPosition)
             THEN [cast EXCEPT !.events = Append(@, "click")]
             ELSE cast)

\* The pointermove listener of #rayCast, which forgets the timer once
\* the pointer has gone away.
pointermoveKeepingTimer(cast, position) ==
  LET begun == ~cast.isMoved /\ isGoneAway(position, cast.position)
      moved == cast.isMoved \/ begun
  IN [cast EXCEPT !.pointCurrentPosition = position,
                  !.isMoved = moved,
                  !.events = (IF begun THEN Append(@, "dragbegin") ELSE @)
                             \o (IF moved THEN <<"drag">> ELSE << >>)]

\* The pointermove listener of #rayCast.
pointermoveListener(cast, position) ==
  LET begun == ~cast.isMoved /\ isGoneAway(position, cast.position)
      moved == cast.isMoved \/ begun
  IN [cast EXCEPT !.pointCurrentPosition = position,
                  !.timer = IF begun /\ @ = "set" THEN "cleared" ELSE @,
                  !.isMoved = moved,
                  !.events = (IF begun THEN Append(@, "dragbegin") ELSE @)
                             \o (IF moved THEN <<"drag">> ELSE << >>)]

\* progenitor.dispatchEvent of a pointer event: pointerdown reaches the
\* static listener of Entity, pointerup and pointermove the listeners of
\* the closures not yet aborted, in the order they were added.
dispatchPointer(cs, type, position) ==
  IF type = "pointerdown" THEN rayCast(cs, position)
  ELSE [k \in 1..Len(cs) |->
          IF cs[k].aborted THEN cs[k]
          ELSE IF type = "pointerup" THEN pointerupListener(cs[k])
          ELSE pointermoveListener(cs[k], position)]

\* The update listener of the Progenitor constructor: [pointer, casts].
updateListener(p, cs) ==
  LET at == p.pointPointerPosition
      p1 == IF p.isPointerDown
            THEN [p EXCEPT !.dispatched = Append(@, "pointerdown"),
                           !.wasPointerDown = TRUE, !.isPointerDown = FALSE]
            ELSE p
      c1 == IF p.isPointerDown THEN dispatchPointer(cs, "pointerdown", at) ELSE cs
      p2 == IF p1.isPointerUp
            THEN [p1 EXCEPT !.dispatched = Append(@, "pointerup"),
                            !.wasPointerDown = FALSE, !.isPointerUp = FALSE]
            ELSE p1
      c2 == IF p1.isPointerUp THEN dispatchPointer(c1, "pointerup", at) ELSE c1
      p3 == [p2 EXCEPT !.isPointerMove = FALSE]
      c3 == IF p2.isPointerMove THEN dispatchPointer(c2, "pointermove", at) ELSE c2
  IN [pointer |-> p3, casts |-> c3]

\* The page after the engine is launched, nothing pressed.
InitPointer ==
  /\ graph = EmptyGraph
  /\ call = NoCall
  /\ components = << >>
  /\ input = NoNotation
  /\ notation = NoNotation
  /\ Idle

\* What the pointer of the engine leaves as it is.
beside == <<graph, call, components, input, notation, twin, walker, board, derived>>

\* The progenitor may still be made to dispatch a pointerdown.
MayPress == occurrences(pointer.dispatched, "pointerdown") < MaxPointerDowns

\* The closures listening may still be made to dispatch a drag.
MayMove ==
  \A k \in 1..Len(casts) :
    casts[k].aborted \/ occurrences(casts[k].events, "drag") < MaxDrags

\* The touchstart listener of the canvas.
TouchStart(point) ==
  /\ MayPress
  /\ "touch" \notin pressed
  /\ pressed' = pressed \cup {"touch"}
  /\ pointer' = [pointer EXCEPT !.pointPointerPosition = point, !.isPointerDown = TRUE]
  /\ UNCHANGED <<casts, beside>>

\* The mousedown listener of the canvas; event.button is 0 for the primary
\* button.
MouseDown(button, point) ==
  /\ MayPress
  /\ button \notin pressed
  /\ pressed' = pressed \cup {button}
  /\ pointer' = IF button # "primary" THEN pointer
                ELSE [pointer EXCEPT !.pointPointerPosition = point, !.isPointerDown = TRUE]
  /\ UNCHANGED <<casts, beside>>

\* The touchend listener of the window; the finger lifted was the only
\* one, so #fixTouchPosition finds no touch and leaves the position.
TouchEnd ==
  /\ "touch" \in pressed
  /\ pressed' = pressed \ {"touch"}
  /\ pointer' = IF ~pointer.wasPointerDown THEN pointer
                ELSE [pointer EXCEPT !.isPointerUp = TRUE]
  /\ UNCHANGED <<casts, beside>>

\* The mouseup listener of the window.
MouseUp(button, point) ==
  /\ button \in pressed
  /\ pressed' = pressed \ {button}
  /\ pointer' = IF button # "primary" \/ ~pointer.wasPointerDown THEN pointer
                ELSE [pointer EXCEPT !.pointPointerPosition = point, !.isPointerUp = TRUE]
  /\ UNCHANGED <<casts, beside>>

\* The touchmove listener of the window.
TouchMove(point) ==
  /\ MayMove
  /\ "touch" \in pressed
  /\ point # pointer.pointPointerPosition
  /\ pointer' = [pointer EXCEPT !.pointPointerPosition = point, !.isPointerMove = TRUE]
  /\ UNCHANGED <<pressed, casts, beside>>

\* The mousemove listener of the window; event.button of a mousemove is 0.
MouseMove(point) ==
  /\ MayMove
  /\ point # pointer.pointPointerPosition
  /\ pointer' = [pointer EXCEPT !.pointPointerPosition = point, !.isPointerMove = TRUE]
  /\ UNCHANGED <<pressed, casts, beside>>

\* One update tick of the fast engine.
Update ==
  LET r == updateListener(pointer, casts)
  IN /\ pointer.isPointerDown \/ pointer.isPointerUp \/ pointer.isPointerMove
     /\ pointer' = r.pointer
     /\ casts' = r.casts
     /\ UNCHANGED <<pressed, beside>>

\* The timer of the k-th closure runs out.
Hold(k) ==
  /\ casts[k].timer = "set"
  /\ casts' = [casts EXCEPT ![k] = holdTimeout(@)]
  /\ UNCHANGED <<pressed, pointer, beside>>

NextPointer ==
  \/ \E button \in {"primary", "auxiliary"}, point \in Points : MouseDown(button, point)
  \/ \E button \in {"primary", "auxiliary"}, point \in Points : MouseUp(button, point)
  \/ \E point \in Points : MouseMove(point)
  \/ \E point \in Points : TouchStart(point)
  \/ TouchEnd
  \/ \E point \in Points : TouchMove(point)
  \/ Update
  \/ \E k \in 1..Len(casts) : Hold(k)

SpecPointer == InitPointer /\ [][NextPointer]_vars

(***************************************************************************)
(* The vocabulary of the properties                                        *)
(***************************************************************************)

\* b is in getNeighborsOf(a), the call not failing.
Adjacent(g, a, b) ==
  LET r == getNeighborsOf(g, a) IN r.error = "none" /\ b \in r.neighbors

\* The edges of a graph: {a, b} for an edge between a and b, {a} for a
\* self-loop at a.
edgesOf(g) ==
  { {p[1], p[2]} : p \in { q \in verticesOf(g) \X verticesOf(g) : Adjacent(g, q[1], q[2]) } }

\* A graph read as its vertex set and its edge set.
AsBlock(g) == [vertices |-> verticesOf(g), edges |-> edgesOf(g)]

Returned == { AsBlock(components[k]) : k \in 1..Len(components) }

Decomposed == call.op = "getBiconnectedComponents"

\* The simple cycles of a graph: the cyclic sequences of three or more
\* distinct vertices, each adjacent to the next and the last to the first.
\* A vertex of a cycle has two neighbors other than itself, so the sequences
\* are drawn from the vertices that have.
Cycles(g) ==
  LET live == { a \in verticesOf(g) :
                  Cardinality({ b \in verticesOf(g) : b # a /\ Adjacent(g, a, b) }) >= 2 }
  IN { c \in UNION { [1..m -> live] : m \in 3..Cardinality(live) } :
         /\ \A i, j \in 1..Len(c) : i # j => c[i] # c[j]
         /\ \A i \in 1..Len(c) : Adjacent(g, c[i], c[(i % Len(c)) + 1]) }

cycleEdges(c) == { {c[i], c[(i % Len(c)) + 1]} : i \in 1..Len(c) }

\* The reference definition of the blocks: two edges belong together iff
\* they are equal or lie on a common simple cycle.
ReferenceBlocks(g) ==
  LET cycles == { cycleEdges(c) : c \in Cycles(g) }
      together(e, f) == e = f \/ \E c \in cycles : e \in c /\ f \in c
      classes == { { f \in edgesOf(g) : together(e, f) } : e \in edgesOf(g) }
  IN { [vertices |-> UNION B, edges |-> B] : B \in classes }

\* The vertices reachable from those of S.
RECURSIVE reach(_, _)
reach(g, S) ==
  LET T == S \cup { b \in verticesOf(g) : \E a \in S : Adjacent(g, a, b) }
  IN IF T = S THEN S ELSE reach(g, T)

ConnectedComponents(g) == { reach(g, {a}) : a \in verticesOf(g) }

\* The connected component K of g taken alone: g without its other vertices.
alone(g, K) ==
  LET kept == { g.vertices[k].vertex : k \in { j \in 1..Len(g.vertices) : g.vertices[j].index \in K } }
  IN [vertices |-> SelectSeq(g.vertices, LAMBDA e : e.index \in K),
      indices |-> [v \in kept |-> g.indices[v]],
      neighbors |-> [v \in Heap |-> IF v \in kept THEN g.neighbors[v] ELSE << >>]]

blocksOf(g) ==
  LET r == getBiconnectedComponents(g)
  IN { AsBlock(r.graphs[k]) : k \in 1..Len(r.graphs) }

\* The roots of the walks of a decomposition run that start later than the
\* first and have two or more tree children.
LateBranchingRoots(g) ==
  LET dfs == extendedWalk(g)
  IN { v \in DOMAIN dfs.visits :
         /\ dfs.visits[v] > 1
         /\ ~has(dfs.parent, v)
         /\ Cardinality({ w \in DOMAIN dfs.parent : dfs.parent[w] = v }) >= 2 }

Forest(g) == Cycles(g) = {} /\ \A a \in verticesOf(g) : ~Adjacent(g, a, a)

(***************************************************************************)
(* The properties                                                          *)
(***************************************************************************)

\* C1: after any sequence of addVertex, removeVertex, addEdge and removeEdge
\* calls, failing ones included, for all live a and b: b is in
\* getNeighborsOf(a) iff a is in getNeighborsOf(b).
C1_NeighborsSymmetric ==
  \A a, b \in verticesOf(graph) : Adjacent(graph, a, b) <=> Adjacent(graph, b, a)

\* An edge between two distinct vertices is there after a call that failed.
C1_Witness ==
  /\ call.error # "none"
  /\ \E a, b \in verticesOf(graph) : a # b /\ Adjacent(graph, a, b)

\* C2: addEdge(a, a) on a live a fails with an error, so no graph reached has
\* an index a that is a member of getNeighborsOf(a).
C2_SelfLoopRejected ==
  /\ (call.op = "addEdge" /\ call.from = call.to /\ hasVertex(graph, call.from))
       => call.error # "none"
  /\ \A a \in verticesOf(graph) : ~Adjacent(graph, a, a)

\* C3: when the edge between distinct live a and b exists, addEdge(a, b) and
\* addEdge(b, a) both fail with the conflict error and leave the graph as it
\* was: every step made by such a call ends so.
C3_DuplicateEdgeRejected ==
  [][(/\ call'.op = "addEdge"
      /\ call'.from # call'.to
      /\ Adjacent(graph, call'.from, call'.to))
     => (call'.error = "ConnectionExists" /\ graph' = graph)]_vars

\* The duplicate was given with the larger index first, and was rejected.
C3_Witness ==
  /\ call.op = "addEdge"
  /\ call.from > call.to
  /\ call.error = "ConnectionExists"
  /\ Adjacent(graph, call.from, call.to)

\* C4: after a successful removeVertex(v), v is not in vertices and no neighbor
\* set of a remaining vertex holds it: every member of such a set is a live
\* vertex with an index other than v.
C4_RemovalCascade ==
  (call.op = "removeVertex" /\ call.error = "none")
    => /\ call.from \notin verticesOf(graph)
       /\ \A u \in verticesOf(graph) :
            /\ getNeighborsOf(graph, u).error = "none"
            /\ call.from \notin getNeighborsOf(graph, u).neighbors
            /\ \A n \in Range(graph.neighbors[vertexOf(graph, u)]) :
                 \E k \in 1..Len(graph.vertices) : graph.vertices[k].vertex = n

\* A vertex was removed and two vertices remain.
C4_Witness ==
  /\ call.op = "removeVertex"
  /\ call.error = "none"
  /\ Cardinality(verticesOf(graph)) >= 2

\* C5: for a notation N that Graph.import accepts, Graph.import(N).export()
\* has N's vertex set and, read as unordered pairs, N's set of connections.
C5_RoundTrip ==
  (call.op = "export" /\ import(input).error = "none")
    => /\ Range(notation.vertices) = Range(input.vertices)
       /\ { {c.from, c.to} : c \in Range(notation.connections) }
            = { {c.from, c.to} : c \in Range(input.connections) }

\* C6: the edge sets of the graphs getBiconnectedComponents returns partition
\* the edge set of the graph: their union is all of it and no two of them
\* share an edge.
C6_EdgePartition ==
  Decomposed
    => /\ call.error = "none"
       /\ UNION { edgesOf(components[k]) : k \in 1..Len(components) } = edgesOf(graph)
       /\ \A j, k \in 1..Len(components) :
            j # k => edgesOf(components[j]) \cap edgesOf(components[k]) = {}

\* C7: the graphs getBiconnectedComponents returns are the blocks of the
\* reference definition, whatever the order of insertion.
C7_ReferenceBlocks ==
  Decomposed => (call.error = "none" /\ Returned = ReferenceBlocks(graph))

\* C8: what getBiconnectedComponents returns is, as a set, the union of what
\* it returns for each connected component taken alone; a root discovered
\* later than the first yields the blocks it yields as the first root.
C8_ComponentwiseDecomposition ==
  Decomposed
    => /\ call.error = "none"
       /\ Returned = UNION { blocksOf(alone(graph, K)) : K \in ConnectedComponents(graph) }

\* The graph decomposed has a root discovered after time 1 that has two tree
\* children, in a graph of two or more connected components.
C8_Witness ==
  /\ Decomposed
  /\ Cardinality(ConnectedComponents(graph)) >= 2
  /\ LateBranchingRoots(graph) # {}

\* C9: for a forest, getBiconnectedComponents returns one component per edge,
\* that edge with its two endpoints, and as many components as edges.
C9_ForestOneComponentPerEdge ==
  (Decomposed /\ Forest(graph))
    => /\ call.error = "none"
       /\ Returned = { [vertices |-> e, edges |-> {e}] : e \in edgesOf(graph) }
       /\ Len(components) = Cardinality(edgesOf(graph))

\* A forest of three edges was decomposed.
C9_Witness ==
  /\ Decomposed
  /\ Forest(graph)
  /\ Cardinality(edgesOf(graph)) = 3
  /\ Len(components) = 3

\* C10: a live vertex without an incident edge is in no returned graph and is
\* still a vertex of the graph; a graph without edges yields no component.
C10_IsolatedVertex ==
  Decomposed
    => /\ \A v \in verticesOf(graph) :
            (\A u \in verticesOf(graph) : ~Adjacent(graph, v, u) /\ ~Adjacent(graph, u, v))
              => /\ \A k \in 1..Len(components) : v \notin verticesOf(components[k])
                 /\ hasVertex(graph, v)
       /\ edgesOf(graph) = {} => components = << >>

\* A graph with an isolated vertex and an edge elsewhere was decomposed.
C10_Witness ==
  /\ Decomposed
  /\ Len(components) >= 1
  /\ \E v \in verticesOf(graph) : \A u \in verticesOf(graph) : ~Adjacent(graph, v, u)

Mutations == {"addVertex", "removeVertex", "addEdge", "removeEdge"}

\* The pair of a call's arguments as an edge.
callEdge(c) == {c.from, c.to}

\* C11: from the same graph, addEdge(a, b) and addEdge(b, a) end the same way
\* and leave the same stored graph, neighbor order included, so that export
\* and getBiconnectedComponents give the same on both.
C11_AddEdgeOrderInvariant ==
  \A a, b \in ArgumentNumbers :
    LET r1 == addEdge(graph, a, b)
        r2 == addEdge(graph, b, a)
    IN /\ r1 = r2
       /\ r1.error = "none"
            => /\ export(r1.graph) = export(r2.graph)
               /\ getBiconnectedComponents(r1.graph) = getBiconnectedComponents(r2.graph)

\* An edge was added with the larger index given first, beside another edge.
C11_Witness ==
  /\ call.op = "addEdge"
  /\ call.from > call.to
  /\ call.error = "none"
  /\ Cardinality(edgesOf(graph)) >= 2

\* What a mutation that returned normally has done, from g to h.
Performed(c, g, h) ==
  CASE c.op = "addVertex" ->
         /\ c.from \notin verticesOf(g)
         /\ verticesOf(h) = verticesOf(g) \cup {c.from}
         /\ edgesOf(h) = edgesOf(g)
    [] c.op = "removeVertex" ->
         /\ c.from \in verticesOf(g)
         /\ verticesOf(h) = verticesOf(g) \ {c.from}
         /\ edgesOf(h) = { e \in edgesOf(g) : c.from \notin e }
    [] c.op = "addEdge" ->
         /\ callEdge(c) \notin edgesOf(g)
         /\ verticesOf(h) = verticesOf(g)
         /\ edgesOf(h) = edgesOf(g) \cup {callEdge(c)}
    [] c.op = "removeEdge" ->
         /\ callEdge(c) \in edgesOf(g)
         /\ verticesOf(h) = verticesOf(g)
         /\ edgesOf(h) = edgesOf(g) \ {callEdge(c)}

\* C12: every call of the four mutations either returns normally having done
\* its mutation, or fails and leaves the graph, maps and neighbor sets as they
\* were.
C12_MutationsAtomic ==
  [][call'.op \in Mutations
       => IF call'.error = "none" THEN Performed(call', graph, graph')
          ELSE graph' = graph]_vars

\* A removeVertex failed on a graph that has an edge.
C12_Witness ==
  /\ call.op = "removeVertex"
  /\ call.error # "none"
  /\ edgesOf(graph) # {}

\* The live indices are integers, no two the same.
DistinctIntegers(g) ==
  /\ \A k \in 1..Len(g.vertices) : IsInteger(g.vertices[k].index)
  /\ \A j, k \in 1..Len(g.vertices) : j # k => g.vertices[j].index # g.vertices[k].index

\* C13: addVertex fails with the conflict error on a bound index and with the
\* validation error on a non-integer, leaving the graph as it was; the live
\* indices are always distinct integers.
C13_AddVertexRejects ==
  [][/\ call'.op = "addVertex"
          => /\ ~IsInteger(call'.from) => (call'.error = "NotInteger" /\ graph' = graph)
             /\ hasVertex(graph, call'.from) => (call'.error = "VertexExists" /\ graph' = graph)
     /\ DistinctIntegers(graph')]_vars

\* addVertex was refused on a bound index that has an edge.
C13_Witness ==
  /\ call.op = "addVertex"
  /\ call.error = "VertexExists"
  /\ \E b \in verticesOf(graph) : Adjacent(graph, call.from, b)

C15_RemoveEdgeOrderInvariant ==
  [][(/\ call'.op = "removeEdge"
      /\ hasVertex(graph, call'.from) /\ hasVertex(graph, call'.to))
       => /\ removeEdge(graph, call'.from, call'.to) = removeEdge(graph, call'.to, call'.from)
          /\ IF callEdge(call') \in edgesOf(graph)
             THEN /\ call'.error = "none"
                  /\ verticesOf(graph') = verticesOf(graph)
                  /\ edgesOf(graph') = edgesOf(graph) \ {callEdge(call')}
             ELSE call'.error = "ConnectionMissing" /\ graph' = graph]_vars

\* An edge was removed with the larger index given first; another one stays.
C15_Witness ==
  /\ call.op = "removeEdge"
  /\ call.from > call.to
  /\ call.error = "none"
  /\ edgesOf(graph) # {}

\* C20: the forward and the reverse map are inverse bijections: each live
\* index has one vertex whose reverse entry is that index, no vertex is bound
\* to two indices, and the reverse map holds no other vertex.
C20_MapsInverse ==
  /\ \A k \in 1..Len(graph.vertices) :
       /\ has(graph.indices, graph.vertices[k].vertex)
       /\ graph.indices[graph.vertices[k].vertex] = graph.vertices[k].index
  /\ \A j, k \in 1..Len(graph.vertices) :
       j # k => /\ graph.vertices[j].index # graph.vertices[k].index
                /\ graph.vertices[j].vertex # graph.vertices[k].vertex
  /\ \A v \in DOMAIN graph.indices :
       \E k \in 1..Len(graph.vertices) : graph.vertices[k].vertex = v

\* A vertex was removed and two vertices joined by an edge remain.
C20_Witness ==
  /\ call.op = "removeVertex"
  /\ call.error = "none"
  /\ \E a, b \in verticesOf(graph) : a # b /\ Adjacent(graph, a, b)

\* C16: getSubgraphWith(S) for a set S of live indices, the empty set and
\* the singletons included, returns a graph whose vertices are S and whose
\* edges are the edges of the graph with both ends in S; it fails when S
\* holds an index that is not live.
C16_InducedSubgraph ==
  call.op = "getSubgraphWith"
    => LET S == Range(call.vertices)
       IN IF S \subseteq verticesOf(graph)
          THEN /\ call.error = "none"
               /\ verticesOf(components[1]) = S
               /\ edgesOf(components[1]) = { e \in edgesOf(graph) : e \subseteq S }
          ELSE call.error # "none"

\* C18: the connections export() lists hold every edge of the graph once as
\* an unordered pair, none twice in either orientation and nothing that is
\* not an edge, and every from and to is in the exported vertices.
C18_ExportListsEachEdgeOnce ==
  Exported
    => /\ \A e \in edgesOf(graph) :
            Cardinality({ k \in 1..Len(notation.connections) :
                            {notation.connections[k].from, notation.connections[k].to} = e }) = 1
       /\ \A k \in 1..Len(notation.connections) :
            /\ {notation.connections[k].from, notation.connections[k].to} \in edgesOf(graph)
            /\ notation.connections[k].from \in Range(notation.vertices)
            /\ notation.connections[k].to \in Range(notation.vertices)

\* The neighbors of index a in the order of its neighbor set.
neighborOrder(g, a) ==
  LET ns == g.neighbors[vertexOf(g, a)] IN [k \in 1..Len(ns) |-> getIndex(g, ns[k])]

\* C19: the graph imported from G.export() decomposes into the same
\* components, vertex sets and edge sets, as G does, also when its neighbor
\* sets are in another order than those of G.
C19_ReimportSameComponents ==
  Exported
    => LET r == import(notation)
       IN /\ r.error = "none"
          /\ getBiconnectedComponents(graph).error = "none"
          /\ getBiconnectedComponents(r.graph).error = "none"
          /\ blocksOf(r.graph) = blocksOf(graph)

\* A graph with a component of three vertices was exported, and the graph
\* imported from the notation has a neighbor set in another order.
C19_Witness ==
  /\ Exported
  /\ \E B \in blocksOf(graph) : Cardinality(B.vertices) >= 3
  /\ import(notation).error = "none"
  /\ \E a \in verticesOf(graph) :
       neighborOrder(import(notation).graph, a) # neighborOrder(graph, a)

\* What Graph.import is said to accept: both fields there, the vertices
\* distinct integers, every connection with its two numbers among the
\* vertices, and no connection the unordered pair of an earlier one.
Acceptable(source) ==
  /\ isArray(source, "vertices") /\ isArray(source, "connections")
  /\ \A k \in 1..Len(source.vertices) :
       /\ IsInteger(source.vertices[k])
       /\ \A j \in 1..Len(source.vertices) : j # k => source.vertices[j] # source.vertices[k]
  /\ \A k \in 1..Len(source.connections) :
       LET item == source.connections[k]
       IN /\ isNumber(item, "from") /\ isNumber(item, "to")
          /\ item.from \in Range(source.vertices) /\ item.to \in Range(source.vertices)
          /\ \A j \in 1..(k - 1) :
               {source.connections[j].from, source.connections[j].to} # {item.from, item.to}

\* C17: Graph.import returns the graph of the listed vertices and the listed
\* connections, or fails with the outer error carrying the cause; it fails
\* for a missing field, a repeated or non-integer vertex, a connection to an
\* index not listed, a connection repeated in either orientation, and in no
\* case leaves the caller with a graph built in part.
C17_ImportAllOrNothing ==
  call.op = "import"
    => IF Acceptable(input)
       THEN /\ call.error = "none"
            /\ verticesOf(graph) = Range(input.vertices)
            /\ edgesOf(graph) = { {c.from, c.to} : c \in Range(input.connections) }
       ELSE /\ call.error = "UnableToImport"
            /\ import(input).cause \notin {"none", "UnableToImport"}
            /\ graph = EmptyGraph

\* An import failed on its second connection, the first one reversed.
C17_Witness ==
  /\ call.op = "import"
  /\ call.error = "UnableToImport"
  /\ import(input).cause = "ConnectionExists"
  /\ Len(input.connections) = 2
  /\ input.connections[1].from = input.connections[2].to
  /\ input.connections[1].to = input.connections[2].from
  /\ input.connections[1].from # input.connections[1].to

\* A graph as a caller reads it: the indices in map order and, for every
\* index, its neighbors in the order of its neighbor set.
indexed(g) ==
  [vertices |-> [k \in 1..Len(g.vertices) |-> g.vertices[k].index],
   neighbors |-> [a \in verticesOf(g) |-> neighborOrder(g, a)]]

liveVertices(g) == { g.vertices[k].vertex : k \in 1..Len(g.vertices) }

\* C22: getBiconnectedComponents and walkDepthFirst, entered on any graph the
\* mutation interface can build, come to their end; the recursive walk is
\* entered with each vertex exactly once, none twice during the walk and
\* every live one by the end, and never has more activations than the graph
\* has vertices.
C22_WalksTerminate ==
  /\ [](/\ \A i, j \in 1..Len(walker.entered) :
             i # j => walker.entered[i] # walker.entered[j]
        /\ Range(walker.entered) \subseteq liveVertices(graph)
        /\ walker.phase = "done" => Range(walker.entered) = liveVertices(graph)
        /\ Len(walker.frames) <= Len(graph.vertices))
  /\ (walker.phase = "walking" ~> walker.phase = "done" /\ call.error = "none")

\* A walk of a graph of three vertices is three activations deep.
C22_Witness ==
  /\ walker.phase = "walking"
  /\ Len(graph.vertices) = 3
  /\ Len(walker.frames) = 3

\* The step is the return of an activation of the extended walk into the
\* activation that called it.
ReturnsToCaller ==
  /\ Walking /\ Extended
  /\ Len(walker.frames) >= 2
  /\ walker'.phase = "walking"
  /\ Len(walker'.frames) = Len(walker.frames) - 1

\* C26: on the return from a tree child w into v, the decomposition walk
\* closes a component, the edges popped down to and including (v, w),
\* exactly when v is the root of the running walk and has more than one
\* child by then, or v is not a root and lowlink(w) >= discovery(v); this
\* for the root of every walk, not only for the vertex of discovery time 1.
C26_ClosingCondition ==
  [][ReturnsToCaller
        => LET depth == Len(walker.frames)
               v == walker.frames[depth - 1].vertex
               w == walker.frames[depth].vertex
               children == walker.frames[depth - 1].children
               isRoot == depth = 2
               closed == Len(walker'.dfs.paths) = Len(walker.dfs.paths) + 1
           IN /\ closed <=> \/ isRoot /\ children > 1
                            \/ ~isRoot /\ walker'.dfs.lowlinks[w] >= walker'.dfs.visits[v]
              /\ closed =>
                   LET path == walker'.dfs.paths[Len(walker'.dfs.paths)]
                   IN /\ path[Len(path)] = <<v, w>>
                      /\ \A k \in 1..Len(path) :
                           path[k] = walker.dfs.stack[Len(walker.dfs.stack) + 1 - k]
                      /\ walker'.dfs.stack =
                           SubSeq(walker.dfs.stack, 1, Len(walker.dfs.stack) - Len(path))]_vars

\* C27: during a run of the decomposition walk the discovery times are
\* 1, 2, ... in the order the vertices are entered, one for each vertex and
\* as many as the graph has vertices by the end, and never change; the
\* lowlink of a visited vertex is at most its discovery time and never
\* grows; the recorded parent of a vertex was discovered before it.
C27_TimesAndLowlinks ==
  /\ [](Extended
         => /\ walker.dfs.time = Len(walker.entered)
            /\ DOMAIN walker.dfs.visits = Range(walker.entered)
            /\ \A i \in 1..Len(walker.entered) : walker.dfs.visits[walker.entered[i]] = i
            /\ walker.phase = "done" => walker.dfs.time = Len(graph.vertices)
            /\ DOMAIN walker.dfs.lowlinks = DOMAIN walker.dfs.visits
            /\ \A v \in DOMAIN walker.dfs.lowlinks :
                 walker.dfs.lowlinks[v] >= 1 /\ walker.dfs.lowlinks[v] <= walker.dfs.visits[v]
            /\ \A v \in DOMAIN walker.dfs.parent :
                 /\ v \in DOMAIN walker.dfs.visits
                 /\ walker.dfs.parent[v] \in DOMAIN walker.dfs.visits
                 /\ walker.dfs.visits[walker.dfs.parent[v]] < walker.dfs.visits[v])
  /\ [][Extended
          => \A v \in DOMAIN walker.dfs.visits :
               /\ v \in DOMAIN walker'.dfs.visits
               /\ walker'.dfs.visits[v] = walker.dfs.visits[v]
               /\ walker'.dfs.lowlinks[v] <= walker.dfs.lowlinks[v]]_vars

\* A decomposition walk over, in which three vertices were discovered and
\* the lowlink of the last one came below its discovery time.
C27_Witness ==
  /\ Extended /\ walker.phase = "done"
  /\ walker.dfs.time = 3
  /\ \E v \in DOMAIN walker.dfs.visits :
       walker.dfs.visits[v] = 3 /\ walker.dfs.lowlinks[v] = 1

\* The edge of the graph a pushed pair of vertex objects stands for.
pushedEdge(g, pair) == {getIndex(g, pair[1]), getIndex(g, pair[2])}

\* C28: by the end of either walk every edge of the graph was pushed onto
\* the stack exactly once: as a tree edge, toward the vertex discovered by
\* it, or as a non-tree edge from the endpoint discovered later toward the
\* one discovered earlier, which is not the parent of the former.
C28_EachEdgePushedOnce ==
  walker.phase = "done"
    => /\ \A e \in edgesOf(graph) :
            Cardinality({ k \in 1..Len(walker.pushed) :
                            pushedEdge(graph, walker.pushed[k]) = e }) = 1
       /\ \A k \in 1..Len(walker.pushed) :
            LET v == walker.pushed[k][1]
                w == walker.pushed[k][2]
            IN /\ pushedEdge(graph, walker.pushed[k]) \in edgesOf(graph)
               /\ IF walker.dfs.visits[w] > walker.dfs.visits[v]
                  THEN has(walker.dfs.parent, w) /\ walker.dfs.parent[w] = v
                  ELSE /\ walker.dfs.visits[w] < walker.dfs.visits[v]
                       /\ ~(has(walker.dfs.parent, v) /\ walker.dfs.parent[v] = w)

\* C29: on the same graph the decomposition walk discovers the vertices in
\* the order walkDepthFirst does and pushes the same edges in the same order,
\* and the list walkDepthFirst returns, read as a set of unordered pairs, is
\* the union of the edge lists recorded for the components.
C29_WalksAgree ==
  Extended /\ walker.phase = "done"
    => LET plain == rootsPlain(graph, NewDFS, 1)
           list == walkDepthFirst(graph)
       IN /\ walker.dfs.visits = plain.visits
          /\ walker.dfs.parent = plain.parent
          /\ walker.pushed = plain.stack
          /\ { {list[k][1], list[k][2]} : k \in 1..Len(list) }
               = UNION { { pushedEdge(graph, walker.dfs.paths[j][i]) :
                             i \in 1..Len(walker.dfs.paths[j]) } :
                         j \in 1..Len(walker.dfs.paths) }

\* A decomposition walk over that pushed three edges, one of them a back
\* edge, and recorded them for one component.
C29_Witness ==
  /\ Extended /\ walker.phase = "done"
  /\ Len(walker.pushed) = 3
  /\ \E k \in 1..3 :
       walker.dfs.visits[walker.pushed[k][2]] < walker.dfs.visits[walker.pushed[k][1]]
  /\ \E j \in 1..Len(walker.dfs.paths) : Len(walker.dfs.paths[j]) = 3

\* C30: every graph getBiconnectedComponents returns has an edge and two
\* vertices at least, is connected, has only indices live in the source
\* graph, and only edges the source graph has between the same indices.
C30_ComponentsWellFormed ==
  Extended /\ walker.phase = "done"
    => /\ call.error = "none"
       /\ \A k \in 1..Len(components) :
            LET c == components[k]
            IN /\ edgesOf(c) # {}
               /\ Cardinality(verticesOf(c)) >= 2
               /\ \A a \in verticesOf(c) : reach(c, {a}) = verticesOf(c)
               /\ verticesOf(c) \subseteq verticesOf(graph)
               /\ edgesOf(c) \subseteq edgesOf(graph)

\* Two graphs were returned for a graph of three edges, one of them a
\* self-loop.
C30_Witness ==
  /\ Extended /\ walker.phase = "done"
  /\ Len(components) = 2
  /\ edgeCount(graph) = 3
  /\ \E a \in verticesOf(graph) : Adjacent(graph, a, a)

(***************************************************************************)
(* The board                                                               *)
(***************************************************************************)

\* C23: while the execute-program switch of the board is on, no pointer
\* gesture changes the model: over a step that begins and ends with the
\* switch on, the vertex set and the edge set of the graph stay as they
\* are, a drag begun before the switch was turned on included.
C23_NoEditWhileExecuting ==
  [][(board.execute /\ board'.execute) => AsBlock(graph') = AsBlock(graph)]_vars

\* The indices of the vertex members attached to the board.
attachedIndices(b) == { b.vertices[k].index : k \in 1..Len(b.vertices) }

\* The edge members of the board with both sockets filled.
filledEdges(b) ==
  { k \in 1..Len(b.edges) : b.edges[k].from # 0 /\ b.edges[k].to # 0 }

\* The edge of the graph the k-th edge member of the board stands for.
drawnEdge(b, k) ==
  {vertexMember(b, b.edges[k].from).index, vertexMember(b, b.edges[k].to).index}

\* C24: after any sequence of completed gestures on the board the view
\* matches the model: the indices of the attached vertex members are
\* exactly the vertices of the graph, and the edge members with both
\* sockets filled correspond one-to-one to the edges of the graph.
C24_ViewMatchesModel ==
  (board.phase = "loaded" /\ Resting) =>
    /\ attachedIndices(board) = verticesOf(graph)
    /\ { drawnEdge(board, k) : k \in filledEdges(board) } = edgesOf(graph)
    /\ \A k, l \in filledEdges(board) :
         drawnEdge(board, k) = drawnEdge(board, l) => k = l

\* C25: the board gives the vertex members their indices from a counter
\* that only increases: no index is ever given to two vertex members, an
\* index freed by a deletion included, and the call of addVertex the
\* board makes never fails.
C25_IndicesNeverReused ==
  /\ [](board.phase = "loaded" =>
         /\ \A k, l \in 1..Len(board.given) : board.given[k] = board.given[l] => k = l
         /\ \A k \in 1..Len(board.given) : board.given[k] < board.counter
         /\ attachedIndices(board) \subseteq { board.given[k] : k \in 1..Len(board.given) }
         /\ (call.op = "addVertex" => call.error = "none"))
  /\ [][board'.counter >= board.counter]_vars

\* A vertex member was deleted and another placed after it.
C25_Witness ==
  /\ board.phase = "loaded"
  /\ call.op = "addVertex" /\ call.error = "none"
  /\ Len(board.given) = 2 /\ Len(board.vertices) = 1
  /\ board.vertices[1].index = board.given[2]

(***************************************************************************)
(* The components as the board colors them                                 *)
(***************************************************************************)

\* The graph without vertex v: what is reachable from a when v is left out.
RECURSIVE reachWithout(_, _, _)
reachWithout(g, v, S) ==
  LET T == S \cup { b \in verticesOf(g) \ {v} : \E a \in S : Adjacent(g, a, b) }
  IN IF T = S THEN S ELSE reachWithout(g, v, T)

\* Removing v disconnects the connected component of v.
isArticulation(g, v) ==
  LET rest == reach(g, {v}) \ {v}
  IN \E a \in rest : reachWithout(g, v, {a}) # rest

\* The returned components index v belongs to.
componentsWith(v) == { k \in 1..Len(components) : v \in verticesOf(components[k]) }

\* C31: two different graphs returned by one getBiconnectedComponents call
\* share at most one vertex index; an index belongs to two or more of them
\* exactly when removing that vertex disconnects its connected component;
\* and for every edge of the graph exactly one returned component contains
\* both of its endpoints.
C31_OneComponentPerEdge ==
  Decomposed
    => /\ call.error = "none"
       /\ \A j, k \in 1..Len(components) :
            j # k => Cardinality(verticesOf(components[j]) \cap verticesOf(components[k])) <= 1
       /\ \A v \in verticesOf(graph) :
            Cardinality(componentsWith(v)) >= 2 <=> isArticulation(graph, v)
       /\ \A e \in edgesOf(graph) :
            Cardinality({ k \in 1..Len(components) : e \subseteq verticesOf(components[k]) }) = 1

(***************************************************************************)
(* The queries                                                             *)
(***************************************************************************)

Queries ==
  {"vertices", "getNeighborsOf", "getSubgraphWith", "getBiconnectedComponents",
   "walkDepthFirst", "export"}

\* The graphs of an array as a caller reads them.
indexedAll(graphs) == [k \in 1..Len(graphs) |-> indexed(graphs[k])]

\* The step is a query made twice in a row with the same arguments.
AskedAgain ==
  /\ call'.op \in Queries /\ call.op = call'.op /\ call.from = call'.from
  /\ call.op = "getSubgraphWith" => call.vertices = call'.vertices

\* C32: getBiconnectedComponents, walkDepthFirst, export, getNeighborsOf,
\* getSubgraphWith and the vertices query leave the source graph as it is
\* (vertices, edges and the order of the neighbor sets); a query made twice
\* in a row on the unchanged graph returns equal results; and a returned
\* graph is independent of the source: a call that edits one leaves the
\* other as it is.
C32_QueriesLeaveNoTrace ==
  [][/\ call'.op \in Queries => indexed(graph') = indexed(graph)
     /\ AskedAgain => /\ call' = call
                      /\ indexedAll(components') = indexedAll(components)
                      /\ notation' = notation
     /\ call'.on = "derived" => indexed(graph') = indexed(graph)
     /\ (Kept /\ call'.on = "source"
           /\ call'.op \notin {"getSubgraphWith", "getBiconnectedComponents"})
          => indexed(derived') = indexed(derived)]_vars

\* An edge was removed from the graph the caller kept of those a query
\* returned, and the source graph has the edge.
C32_Witness ==
  /\ call.op = "removeEdge" /\ call.on = "derived"
  /\ edgesOf(derived) = {}
  /\ {call.from, call.to} \in edgesOf(graph)

(***************************************************************************)
(* The neighbor sets                                                       *)
(***************************************************************************)

\* C33: in every reachable state of a Graph every member of the neighbor
\* set of a live vertex is a live vertex of the same graph, so that
\* getNeighborsOf(i) does not fail for a live index i and returns live
\* indices only.
C33_NeighborsAreLive ==
  /\ \A v \in liveVertices(graph) :
       /\ Range(graph.neighbors[v]) \subseteq liveVertices(graph)
       /\ has(graph.indices, v)
  /\ \A i \in verticesOf(graph) :
       /\ getNeighborsOf(graph, i).error = "none"
       /\ getNeighborsOf(graph, i).neighbors \subseteq verticesOf(graph)

\* A vertex was removed from a graph that still has an edge, and a vertex
\* without any.
C33_Witness ==
  /\ call.op = "removeVertex" /\ call.error = "none"
  /\ edgesOf(graph) # {}
  /\ \E i \in verticesOf(graph) : getNeighborsOf(graph, i).neighbors = {}

\* Index i designates a vertex of g that has no neighbors and that no
\* vertex lists as a neighbor, read through getNeighborsOf and on the
\* vertex objects.
freshAt(g, i) ==
  /\ getNeighborsOf(g, i) = [neighbors |-> {}, error |-> "none"]
  /\ \A j \in verticesOf(g) \ {i} :
       /\ getNeighborsOf(g, j).error = "none"
       /\ i \notin getNeighborsOf(g, j).neighbors
  /\ g.neighbors[vertexOf(g, i)] = << >>
  /\ \A u \in Heap : vertexOf(g, i) \notin Range(g.neighbors[u])

C35_StackNeverReadEmpty ==
  /\ [](Extended => /\ ~walker.dfs.failed
                    /\ call.error # "StackEmpty"
                    /\ walker.phase = "done" => walker.dfs.stack = << >>)
  /\ [][ReturnsToCaller
          => LET depth == Len(walker.frames)
                 v == walker.frames[depth - 1].vertex
                 w == walker.frames[depth].vertex
                 closed == Len(walker'.dfs.paths) = Len(walker.dfs.paths) + 1
             IN closed =>
                  /\ \E k \in 1..Len(walker.dfs.stack) : walker.dfs.stack[k] = <<v, w>>
                  /\ LET path == walker'.dfs.paths[Len(walker'.dfs.paths)]
                     IN /\ path # << >> /\ path[Len(path)] = <<v, w>>
                        /\ Len(walker'.dfs.stack) + Len(path) = Len(walker.dfs.stack)]_vars
  /\ [][(Walking /\ Extended /\ walker'.root = walker.root + 1)
          => walker'.dfs.stack = << >>]_vars

\* A component was closed on a return and edges of the walk are left on the
\* stack beneath it.
C35_Witness ==
  /\ Walking /\ Extended
  /\ walker.dfs.paths # << >>
  /\ walker.dfs.paths[Len(walker.dfs.paths)] # << >>
  /\ walker.dfs.stack # << >>

(***************************************************************************)
(* The notation of a reachable graph                                       *)
(***************************************************************************)

\* C36: for every graph G reachable through the public operations,
\* Graph.import(G.export()) succeeds and yields a graph with the vertex set
\* and the edge set of G.
C36_ExportImports ==
  Exported
    => LET r == import(notation)
       IN /\ r.error = "none"
          /\ verticesOf(r.graph) = verticesOf(graph)
          /\ edgesOf(r.graph) = edgesOf(graph)

(***************************************************************************)
(* What a mutation leaves alone                                            *)
(***************************************************************************)

\* The neighbor set of index a as indices, in its order; -1 stands for a
\* vertex object the reverse map does not hold.
neighborsRead(g, a) ==
  LET ns == g.neighbors[vertexOf(g, a)]
  IN [k \in 1..Len(ns) |-> IF has(g.indices, ns[k]) THEN getIndex(g, ns[k]) ELSE -1]

\* The neighbors of every live index other than v, in the order of its
\* neighbor set, v left out.
othersOrder(g, v) ==
  [a \in verticesOf(g) \ {v} |-> SelectSeq(neighborsRead(g, a), LAMBDA b : b # v)]

\* C37: a removeVertex(v) that returns normally changes nothing but v and
\* the edges at v, and an addEdge or removeEdge that returns normally
\* nothing but the one edge named: every other vertex stays live and every
\* edge between two other vertices is kept as it is.
C37_MutationsTouchNothingElse ==
  [][call'.error = "none" =>
       /\ call'.op = "removeVertex" =>
            /\ verticesOf(graph') = verticesOf(graph) \ {call'.from}
            /\ edgesOf(graph') = { e \in edgesOf(graph) : call'.from \notin e }
            /\ othersOrder(graph', call'.from) = othersOrder(graph, call'.from)
       /\ call'.op = "addEdge" =>
            /\ indexed(graph').vertices = indexed(graph).vertices
            /\ edgesOf(graph') = edgesOf(graph) \cup {callEdge(call')}
            /\ \A a \in verticesOf(graph) \ callEdge(call') :
                 neighborsRead(graph', a) = neighborsRead(graph, a)
       /\ call'.op = "removeEdge" =>
            /\ indexed(graph').vertices = indexed(graph).vertices
            /\ edgesOf(graph') = edgesOf(graph) \ {callEdge(call')}
            /\ \A a \in verticesOf(graph) \ callEdge(call') :
                 neighborsRead(graph', a) = neighborsRead(graph, a)]_vars

\* An edge was removed from a graph that has another edge, and a vertex at
\* neither end of the edge removed.
C37_Witness ==
  /\ call.op = "removeEdge" /\ call.error = "none"
  /\ edgesOf(graph) # {}
  /\ verticesOf(graph) \ callEdge(call) # {}

\* The places of an event type in what a closure of #rayCast dispatched.
placesOf(types, type) == {j \in 1..Len(types) : types[j] = type}

\* C38: in one gesture on an entity, from the pointerdown that hits it to
\* the abort of its listeners, dragbegin is dispatched at most once and
\* before any drag, dragend only after a dragbegin, click and dragend never
\* both, hold at most once and only if no dragbegin happened, and neither
\* click nor dragend after hold.
C38_GestureEventsOrdered ==
  \A k \in 1..Len(casts) :
    LET types == casts[k].events
    IN /\ Cardinality(placesOf(types, "dragbegin")) <= 1
       /\ \A j \in placesOf(types, "drag") :
            \E b \in placesOf(types, "dragbegin") : b < j
       /\ \A j \in placesOf(types, "dragend") :
            \E b \in placesOf(types, "dragbegin") : b < j
       /\ placesOf(types, "click") = {} \/ placesOf(types, "dragend") = {}
       /\ Cardinality(placesOf(types, "hold")) <= 1
       /\ placesOf(types, "hold") # {} => placesOf(types, "dragbegin") = {}
       /\ \A h \in placesOf(types, "hold") :
            \A j \in placesOf(types, "click") \cup placesOf(types, "dragend") : j < h

\* Two gestures are over: one dragged the entity twice and let it go, the
\* other held it.
C38_Witness ==
  \E k \in 1..Len(casts), l \in 1..Len(casts) :
    /\ casts[k].events = <<"dragbegin", "drag", "drag", "dragend">>
    /\ casts[l].events = <<"hold">>

\* C39: every press of the primary button or of a finger on the canvas
\* followed by its release gives a pointerdown followed by a pointerup of
\* the progenitor, however the browser events and the update ticks
\* interleave: once nothing is pressed and no flag waits for a tick, no
\* pointerdown is left without a pointerup after it.
C39_EveryPressGetsItsPointerUp ==
  (/\ pressed \cap {"primary", "touch"} = {}
   /\ ~pointer.isPointerDown
   /\ ~pointer.isPointerUp)
  => \A j \in placesOf(pointer.dispatched, "pointerdown") :
       \E u \in placesOf(pointer.dispatched, "pointerup") : j < u

====
